---- MODULE Spec2Model ----
(***************************************************************************)
(* Scheduling core of the barber-shop booking bot: the appointment store   *)
(* (PostgreSQLAppointmentRepository), the slot-availability computation    *)
(* (Barber.generateTimeSlots, BlockedSlot.conflictsWith), the booking      *)
(* conversation (WebhookHandler) and the admin session (AdminPanelHandler).*)
(*                                                                         *)
(* Time.  Every instant is a number of minutes on the Colombia wall clock  *)
(* (minute 0 = 00:00 of day 0).  A JavaScript Date built from a string     *)
(* without zone, or changed with setHours, is interpreted on the HOST wall *)
(* clock, which is hostAhead minutes ahead of Colombia.                    *)
(*                                                                         *)
(* Concurrency.  Node runs one handler until its next await; every await   *)
(* on the store or on the messaging service is a point where another       *)
(* inbound event, a timer or the sweep may run.  A task is one invocation  *)
(* of WebhookHandler.handleMessage; its pc names the await it is parked on.*)
(* handleMessage is the entry point, for text and for interactive          *)
(* messages; nothing orders two invocations for the same phone.            *)
(*                                                                         *)
(* Timers.  The inactivity timeout is far longer than a handler runs, so   *)
(* a timer fires only while no handler of its phone is in flight.          *)
(*                                                                         *)
(* Bounds.  A behaviour starts from a conversation the flow has already    *)
(* brought to some step (Scenarios) and takes MaxEvents inbound messages;  *)
(* MaxTasks of them are handled at once.                                   *)
(***************************************************************************)
EXTENDS Integers, Sequences, FiniteSets, TLC

\* ------------------------------------------------------------------ bounds
MaxTasks == 2
MaxAppts == 2
MaxDays == 2
MaxBlocks == 2
MaxEvents == 2

\* ------------------------------------------------------- program constants
MinutesPerHour == 60
PAGE_SIZE == 10
DURATION_MINUTES == 60
working_hours_start == 9
working_hours_end == 19
DayMinutes == 24 * MinutesPerHour
UtcAheadOfColombia == 5 * MinutesPerHour

\* ----------------------------------------------------------- input domains
Phones == {"p1", "p2"}
Barbers == {"barber_carlos"}
UnknownBarber == "barber_nadie"
BarberIds == Barbers \cup {UnknownBarber}
Services == {"corte", "barba", "corte_barba"}
UnknownService == "tinte"
ServiceIds == {"corte", UnknownService}
Dates == 1..MaxDays
Today == CHOOSE d \in Dates : \A e \in Dates : d <= e
NoDate == Today - 1
\* hours carried by the time_HH:00 ids the bot issues
TimeHours == {9, 10}
\* the host clock is Colombia's or UTC
HostAheadSet == {0, UtcAheadOfColombia}
\* instants the clock steps through
NowPoints == {Today * DayMinutes + 8 * MinutesPerHour + 30,
              (Today + 1) * DayMinutes + 9 * MinutesPerHour + 30}
\* a recurring lunch block the blocked_slots table may hold from the start
RecurringBlock == [id |-> 0, barber |-> "barber_carlos", date |-> NoDate,
                   startMin |-> 10 * MinutesPerHour,
                   endMin |-> 11 * MinutesPerHour, recurring |-> TRUE]
\* a one-hour block of barber_carlos on date d from hour h, as
\* BlockedSlot.createOneHourBlock builds it
DateBlock(d, h) ==
  [id |-> d * DayMinutes + h, barber |-> "barber_carlos", date |-> d,
   startMin |-> h * MinutesPerHour,
   endMin |-> h * MinutesPerHour + DURATION_MINUTES, recurring |-> FALSE]
\* what the blocked_slots table may hold. The program reads the table and
\* never writes it (BlockTimeSlot and UnblockTimeSlot fail before they reach
\* it), so its rows are those database administration put there
BlockTables ==
  {B \in SUBSET ({RecurringBlock} \cup {DateBlock(d, h) : d \in Dates, h \in TimeHours}) :
     Cardinality(B) <= MaxBlocks}

VARIABLES
  now,        \* the current instant
  hostAhead,  \* minutes the host wall clock is ahead of Colombia's
  appts,      \* table appointments
  nextId,     \* appointment ids handed out so far (crypto.randomUUID)
  history,    \* table appointment_history, by phone number
  blocked,    \* table blocked_slots
  notes,      \* table client_notes
  clients,    \* table clients
  conv,       \* WebhookHandler.#conversationState: phone -> session object
  objs,       \* the booking-session objects
  timers,     \* WebhookHandler.#conversationTimers
  welcomed,   \* WebhookHandler.#welcomedUsers
  admin,      \* AdminPanelHandler.#adminSessions: phone -> session object
  aobjs,      \* the admin-session objects
  tasks,      \* the handleMessage invocations in flight
  expired,    \* phones whose session timed out and that sent nothing since
  sweep,      \* processExpiredAppointments in progress: the rows it selected
  events      \* inbound messages received so far

vars == <<now, hostAhead, appts, nextId, history, blocked, notes, clients, conv, objs,
          timers, welcomed, admin, aobjs, tasks, expired, sweep, events>>

NoAppt == [id |-> "none"]
\* the id of a ClientNote, a UUID no appointment has
NoteId == 0 - 1

\* --------------------------------------------------------- Date arithmetic
DayOf(t) == t \div DayMinutes
MinuteOfDay(t) == t % DayMinutes
HourOf(t) == MinuteOfDay(t) \div MinutesPerHour
\* the host wall clock reading of instant t
HostClock(t) == t + hostAhead
\* the string read on the Colombia clock whatever the host
ParseAsColombia(day, minuteOfDay) == day * DayMinutes + minuteOfDay
\* new Date('YYYY-MM-DDTHH:MM:00'): the string is read on the host clock
ParseLocal(day, minuteOfDay) == day * DayMinutes + minuteOfDay - hostAhead
\* new Date(d.toLocaleString('en-US', {timeZone: 'America/Bogota'})): a Date
\* whose host clock reading is the Colombia clock reading of d
ToColombia(t) == t - hostAhead
\* Barber.getColombiaTime()
getColombiaTime == ToColombia(now)
\* d.setHours(h, 0, 0, 0): same host day, host hour h
SetHours(t, h) == DayOf(HostClock(t)) * DayMinutes + h * MinutesPerHour - hostAhead
\* new Date(dateValue + 'T12:00:00')
NoonOf(day) == ParseLocal(day, 12 * MinutesPerHour)

RECURSIVE SortedSeq(_)
SortedSeq(S) ==
  IF S = {} THEN <<>>
  ELSE LET m == CHOOSE x \in S : \A y \in S : x <= y
       IN  <<m>> \o SortedSeq(S \ {m})

Range(s) == {s[i] : i \in DOMAIN s}

\* ------------------------------------------------------- appointment store
\* SELECT * FROM appointments WHERE phone_number = $1 AND status != 'cancelled' LIMIT 1
findByPhone(ph) ==
  LET rows == {a \in appts : a.phone = ph /\ a.status # "cancelled"}
  IN  IF rows = {} THEN NoAppt ELSE CHOOSE a \in rows : TRUE

\* Appointment.isPast
isPast(a) == a.dt < now

hasActiveAppointment(ph) ==
  LET a == findByPhone(ph)
  IN  a # NoAppt /\ ~isPast(a) /\ a.status # "cancelled"

\* isSlotAvailable with both ends of the hour counted in
isSlotAvailableClosed(b, t) ==
  {a \in appts :
     /\ a.barber = b
     /\ a.status # "cancelled"
     /\ a.dt >= t - DURATION_MINUTES /\ a.dt <= t + DURATION_MINUTES} = {}

isSlotAvailable(b, t) ==
  LET slotStart == t
      slotEnd == t + DURATION_MINUTES
  IN  {a \in appts :
         /\ a.barber = b
         /\ a.status # "cancelled"
         /\ \/ (a.dt >= slotStart /\ a.dt < slotEnd)
            \/ (a.dt + DURATION_MINUTES > slotStart /\ a.dt < slotStart)} = {}

findByBarberAndDate(b, date) ==
  LET colombiaDate == ToColombia(date)
      startOfDay == SetHours(colombiaDate, 0)
      endOfDay == startOfDay + DayMinutes - 1
  IN  {a \in appts :
         /\ a.barber = b
         /\ a.dt >= startOfDay
         /\ a.dt <= endOfDay
         /\ a.status # "cancelled"}

\* getBookedSlots counting the cancelled appointments too
getBookedSlotsAnyStatus(b, date) == {a.dt : a \in {x \in appts : x.barber = b}}

getBookedSlots(b, date) == {a.dt : a \in findByBarberAndDate(b, date)}

\* ---------------------------------------------------------------- barbers
\* HashService.hash and HashService.verify: a hash verifies the PIN it was
\* derived from and no other
hash(pin) == <<"pbkdf2", pin>>
verify(pin, pinHash) == pinHash = hash(pin)
NoHash == <<>>

\* the barbers table: the seeded barber with the default PIN, and rows the
\* shop's administrator keeps in the database: a second barber, a barber
\* who left (is_active false) and a barber whose pin_hash is still NULL
barbers ==
  {[id |-> "barber_carlos", alias |-> "carlos", pinHash |-> hash(1234),
    isActive |-> TRUE],
   [id |-> "barber_miguel", alias |-> "miguel", pinHash |-> hash(1234),
    isActive |-> TRUE],
   [id |-> "barber_david", alias |-> "david", pinHash |-> hash(1234),
    isActive |-> FALSE],
   [id |-> "barber_nuevo", alias |-> "nuevo", pinHash |-> NoHash,
    isActive |-> TRUE]}

\* SELECT * FROM barbers WHERE id = $1
findBarberById(b) == \E r \in barbers : r.id = b

\* SELECT * FROM barbers WHERE alias = $1 AND is_active = true
findByAlias(alias) == {r \in barbers : r.alias = alias /\ r.isActive}

\* Barber.hasPin and Barber.verifyPin
hasPin(r) == r.pinHash # NoHash
verifyPin(r, pin) == hasPin(r) /\ verify(pin, r.pinHash)

\* AuthenticateBarber.execute
AuthenticateBarber(alias, pin) ==
  LET found == findByAlias(alias) IN
  IF found = {}
  THEN [success |-> FALSE, barber |-> "none", error |-> "credencialesInvalidas"]
  ELSE LET barber == CHOOSE r \in found : TRUE IN
       IF ~hasPin(barber)
       THEN [success |-> FALSE, barber |-> "none", error |-> "pinNoConfigurado"]
       ELSE IF ~verifyPin(barber, pin)
       THEN [success |-> FALSE, barber |-> "none", error |-> "credencialesInvalidas"]
       ELSE [success |-> TRUE, barber |-> barber.id, error |-> "none"]

\* generateTimeSlots without the rule for today
generateEveryHour(date) ==
  {[time |-> hour, dateTime |-> SetHours(date, hour)] :
     hour \in working_hours_start..(working_hours_end - 1)}

\* Barber.generateTimeSlots: the set of slots {time, dateTime}
generateTimeSlots(date) ==
  LET nowColombia == getColombiaTime
      currentHour == HourOf(HostClock(nowColombia))
      dateColombia == ToColombia(date)
      isToday == DayOf(HostClock(dateColombia)) = DayOf(HostClock(nowColombia))
  IN  {[time |-> hour, dateTime |-> SetHours(date, hour)] :
         hour \in {h \in working_hours_start..(working_hours_end - 1) :
                     ~(isToday /\ h <= currentHour)}}

\* ------------------------------------------------------------ blocked slots
findBlockedSlotsByBarberAndDate(b, date) ==
  LET colombiaDate == ToColombia(date)
      dateStr == DayOf(HostClock(colombiaDate))
  IN  {k \in blocked : k.barber = b /\ (k.date = dateStr \/ k.recurring)}

timeConflicts(k, t) ==
  LET checkMinutes == MinuteOfDay(HostClock(t))
  IN  checkMinutes >= k.startMin /\ checkMinutes < k.endMin

\* BlockedSlot.conflictsWith
conflictsWith(k, t) ==
  IF k.recurring THEN timeConflicts(k, t)
  ELSE IF k.date # NoDate /\ k.date # DayOf(HostClock(t)) THEN FALSE
  ELSE timeConflicts(k, t)

\* the filter without the blocked-slot test
filterBookedOnly(allSlots, bookedTimes, blockedSlots) ==
  {slot \in allSlots : slot.dateTime \notin bookedTimes}

\* PostgreSQLAppointmentRepository.getAvailableSlots: the filter over the
\* generated slots
filterSlots(allSlots, bookedTimes, blockedSlots) ==
  {slot \in allSlots :
     /\ slot.dateTime \notin bookedTimes
     /\ \A k \in blockedSlots : ~conflictsWith(k, slot.dateTime)}

\* the slots in ascending time order
SlotSeq(slots) ==
  LET hours == SortedSeq({s.time : s \in slots})
  IN  [i \in DOMAIN hours |-> CHOOSE s \in slots : s.time = hours[i]]

\* WhatsAppService.sendTimeSelection: the messages sent and the rows of the
\* list message, section after section
sendTimeSelection(availableSlots, page) ==
  LET startIndex == page * PAGE_SIZE
      endIndex == startIndex + PAGE_SIZE
      last == IF Len(availableSlots) < endIndex THEN Len(availableSlots) ELSE endIndex
      paginatedSlots == [i \in 1..(IF last > startIndex THEN last - startIndex ELSE 0)
                           |-> availableSlots[startIndex + i]]
      hasMore == Len(availableSlots) > endIndex
      isMorning(slot) == slot.time < 12
      isAfternoon(slot) == slot.time >= 12 /\ slot.time < 18
      isEvening(slot) == slot.time >= 18
  IN  IF Len(availableSlots) = 0
      THEN [msgs |-> <<"noSlots">>, rows |-> <<>>]
      ELSE [msgs |-> <<"timeSelection">>
                       \o (IF hasMore THEN <<"moreButton">> ELSE <<>>),
            rows |-> SelectSeq(paginatedSlots, isMorning)
                       \o SelectSeq(paginatedSlots, isAfternoon)
                       \o SelectSeq(paginatedSlots, isEvening)]

getAvailableSlots(b, date) ==
  IF ~findBarberById(b) THEN <<>>
  ELSE SlotSeq(filterSlots(generateTimeSlots(date), getBookedSlots(b, date),
                           findBlockedSlotsByBarberAndDate(b, date)))

\* ------------------------------------------------------------ session heap
Tasks == 1..MaxTasks
ObjIds == 1..(Cardinality(Phones) + MaxTasks)
NoObj == 0
Free == [step |-> "free"]
AFree == [state |-> "free"]
Idle == [pc |-> "idle", ph |-> "none", k |-> "none", s |-> "none", n |-> 0,
         ref |-> NoObj, aref |-> NoObj, dt |-> 0, apt |-> NoAppt,
         booked |-> {}, gen |-> {}, out |-> <<>>,
         \* the rows of the time list the handler has sent
         page |-> <<>>,
         \* the two calls by which the handler ended the sender's session, in
         \* the order it made them
         ends |-> <<>>,
         \* what the handler found when its message came in: the session of
         \* the sender, and whether the sender's session had just timed out
         was |-> Free, first |-> FALSE,
         \* no other message of the sender was being handled since it came in
         alone |-> TRUE]

InFlight(p) == \E t \in Tasks : tasks[t].pc # "idle" /\ tasks[t].ph = p

\* the object the next `new` yields
NewObj(heap, free) == CHOOSE i \in ObjIds : heap[i] = free /\ \A j \in ObjIds : heap[j] = free => i <= j

\* objects nothing refers to any more are collected
Collect(heap, map, ts, free, field) ==
  [i \in ObjIds |->
     IF \/ \E p \in Phones : map[p] = i
        \/ \E t \in Tasks : ts[t].pc # "idle" /\ ts[t][field] = i
     THEN heap[i] ELSE free]

Commit(c, o, a, ao, ts) ==
  /\ conv' = c
  /\ admin' = a
  /\ tasks' = ts
  /\ objs' = Collect(o, c, ts, Free, "ref")
  /\ aobjs' = Collect(ao, a, ts, AFree, "aref")

\* WebhookHandler.#startScheduling / #startSchedulingForOther: the new object
NewSession(step, forSelf, target) ==
  [step |-> step, forSelf |-> forSelf, targetPhone |-> target,
   customerName |-> "none", barberId |-> "none", serviceType |-> "none",
   date |-> NoDate, hasSlots |-> FALSE, availableSlots |-> <<>>, timePage |-> 0]

\* the session object the booking flow has built when it prompts for `step`,
\* nothing being booked yet: startScheduling or startSchedulingForOther, then
\* the fields each step set
SessionAt(step, forSelf, p, target, date) ==
  LET s0 == NewSession(IF forSelf THEN "name" ELSE "other_phone", forSelf,
                       IF forSelf THEN p ELSE "none")
      s1 == IF step = "other_phone" THEN s0
            ELSE [s0 EXCEPT !.targetPhone = IF forSelf THEN p ELSE target,
                            !.step = "name"]
      s2 == IF step \in {"other_phone", "name"} THEN s1
            ELSE [s1 EXCEPT !.customerName = "Ana", !.step = "barber"]
      s3 == IF step \in {"other_phone", "name", "barber"} THEN s2
            ELSE [s2 EXCEPT !.barberId = "barber_carlos", !.step = "service"]
      s4 == IF step \in {"other_phone", "name", "barber", "service"} THEN s3
            ELSE [s3 EXCEPT !.serviceType = "corte", !.step = "date"]
  IN  IF step # "time" THEN s4
      ELSE [s4 EXCEPT !.date = date, !.step = "time", !.hasSlots = TRUE,
                      !.availableSlots =
                        SlotSeq(filterSlots(generateTimeSlots(NoonOf(date)), {},
                                  findBlockedSlotsByBarberAndDate("barber_carlos",
                                                                  NoonOf(date))))]

\* the conversations open when the model starts: none, or one the flow has
\* brought to some step
OpenSessions(p) ==
  {Free}
  \cup {SessionAt(step, TRUE, p, p, Today + 1) :
          step \in {"name", "barber", "service", "date", "time"}}
  \cup {SessionAt(step, FALSE, p, q, Today + 1) :
          step \in {"other_phone", "time"}, q \in Phones \ {p}}

\* the admin session a successful login leaves
LoggedIn == [state |-> "menu", barber |-> "barber_carlos", blockDate |-> NoDate,
             noteAppointmentId |-> 0]

\* an appointment p1 booked for tomorrow at 9:00
Booked == [id |-> 1, phone |-> "p1", name |-> "Ana", barber |-> "barber_carlos",
           service |-> "corte", dt |-> ParseLocal(Today + 1, 9 * MinutesPerHour),
           status |-> "pending"]

\* the admin session after the barber picked the note button of the
\* appointment
WaitingNote == [LoggedIn EXCEPT !.state = "waiting_note", !.noteAppointmentId = 1]

\* an appointment p1 held yesterday at 9:00, not yet swept into the history
Lapsed == [Booked EXCEPT !.dt = ParseLocal(Today - 1, 9 * MinutesPerHour)]

\* the same appointment with another barber
BookedElsewhere == [Booked EXCEPT !.barber = "barber_miguel"]

\* what is open when the model starts: p1 alone in a conversation, the barber
\* logged in on p2 or not; p1 and p2 both about to pick a time; or p1 holding
\* an appointment and the barber logged in on p2, booking for themselves or not
Scenarios ==
  {[s1 |-> x, s2 |-> Free, a |-> y, appts |-> {}] :
     x \in OpenSessions("p1"), y \in {AFree, LoggedIn}}
  \cup {[s1 |-> x, s2 |-> SessionAt("time", TRUE, "p2", "p2", Today + 1),
         a |-> AFree, appts |-> {}] :
          x \in {s \in OpenSessions("p1") : s # Free /\ s.step = "time"}}
  \cup {[s1 |-> Free, s2 |-> x, a |-> LoggedIn, appts |-> {Booked}] :
          x \in {Free, SessionAt("name", TRUE, "p2", "p2", Today + 1)}}

\* what is open when the admin panel is looked at alone: the barber logged in
\* on p2 and p1 holding an appointment, with this barber or with another; or
\* the barber about to type a note on p1's appointment; or p1 and p2 both
\* holding an appointment for tomorrow at 9:00, each with another barber
AdminScenarios ==
  {[s1 |-> Free, s2 |-> Free, a |-> LoggedIn, appts |-> {x}] :
     x \in {Booked, BookedElsewhere}}
  \cup {[s1 |-> Free, s2 |-> Free, a |-> WaitingNote, appts |-> {Booked}]}
  \cup {[s1 |-> Free, s2 |-> Free, a |-> LoggedIn,
         appts |-> {Booked, [BookedElsewhere EXCEPT !.id = 2, !.phone = "p2"]}]}

\* ------------------------------------------------------------------- Init
\* The clock is at its first point, the blocked_slots table holds the
\* recurring block, and the program is in one of the scenarios, the timer of
\* every open conversation running.
InitWith(scenarios, tables) ==
  /\ now \in NowPoints /\ \A t \in NowPoints : now <= t
  /\ hostAhead \in HostAheadSet
  /\ history = [p \in Phones |-> NoAppt]
  /\ blocked \in tables
  /\ notes = {}
  /\ clients = {}
  /\ \E sc \in scenarios :
       /\ appts = sc.appts
       /\ nextId = Cardinality(sc.appts)
       /\ objs = [i \in ObjIds |-> IF i = 1 THEN sc.s1 ELSE IF i = 2 THEN sc.s2 ELSE Free]
       /\ conv = [p \in Phones |->
                    IF p = "p1" THEN (IF sc.s1 = Free THEN NoObj ELSE 1)
                    ELSE (IF sc.s2 = Free THEN NoObj ELSE 2)]
       /\ aobjs = [i \in ObjIds |-> IF i = 1 THEN sc.a ELSE AFree]
       /\ admin = [p \in Phones |-> IF p = "p2" /\ sc.a # AFree THEN 1 ELSE NoObj]
  /\ timers = [p \in Phones |-> IF conv[p] # NoObj THEN "pending" ELSE "none"]
  /\ welcomed = Phones
  /\ tasks = [t \in Tasks |-> Idle]
  /\ expired = {}
  /\ sweep = [running |-> FALSE, rows |-> {}]
  /\ events = 0

\* the blocked_slots table holding the recurring block
InitIn(scenarios) == InitWith(scenarios, {{RecurringBlock}})

Init == InitIn(Scenarios)
InitAdmin == InitIn(AdminScenarios)
\* two further situations: p1 about to pick a time while yesterday's
\* appointment is still in the table; the barber, about to pick a barber for a
\* booking of their own, having picked the note button of p1's appointment
InitLater ==
  InitIn({[s1 |-> SessionAt("time", TRUE, "p1", "p1", Today + 1), s2 |-> Free,
           a |-> AFree, appts |-> {Lapsed}],
          [s1 |-> Free, s2 |-> SessionAt("barber", TRUE, "p2", "p2", Today + 1),
           a |-> WaitingNote, appts |-> {Booked}]})
\* p1 about to pick a date, p2 holding an appointment for tomorrow at 9:00,
\* having cancelled it, or holding none, the blocked_slots table holding any
\* rows
InitSlots ==
  InitWith({[s1 |-> SessionAt("date", TRUE, "p1", "p1", Today + 1), s2 |-> Free,
             a |-> AFree, appts |-> x] :
              x \in {{}, {[Booked EXCEPT !.phone = "p2"]},
                         {[Booked EXCEPT !.phone = "p2", !.status = "cancelled"]}}},
           BlockTables)
\* the barber logged in on p2, the blocked_slots table holding any rows
InitBlock ==
  InitWith({[s1 |-> Free, s2 |-> Free, a |-> LoggedIn, appts |-> {}]}, BlockTables)

\* the slot lists of a barber whose row in barbers has working hours from 7 or
\* 9 to 9, 18, 19, 21 or 23, nothing booked or blocked
SlotLists ==
  {SlotSeq({[time |-> h, dateTime |-> SetHours(NoonOf(Today + 1), h)] :
              h \in lo..(hi - 1)}) : lo \in {7, 9}, hi \in {9, 18, 19, 21, 23}}
\* p1 looking at the first page of the time list of tomorrow
InitPages ==
  InitWith({[s1 |-> [SessionAt("time", TRUE, "p1", "p1", Today + 1)
                       EXCEPT !.availableSlots = L],
             s2 |-> Free, a |-> AFree, appts |-> {}] : L \in SlotLists},
           {{RecurringBlock}})

\* ----------------------------------------------------------------- timers
\* WebhookHandler.#resetInactivityTimer; c is the conversation map read.
\* "dead" is a handle left in the map after clearTimeout.
resetInactivityTimer(tm, c, p) ==
  [tm EXCEPT ![p] = IF c[p] # NoObj THEN "pending"
                    ELSE IF tm[p] = "none" THEN "none" ELSE "dead"]

\* WebhookHandler.#clearInactivityTimer
clearInactivityTimer(tm, p) == [tm EXCEPT ![p] = "none"]

\* WebhookHandler.#capitalizeName
capitalizeName(name) == IF name = "ana" THEN "Ana" ELSE name

\* AdminCommand.isAdminCommand: the text starts with "admin "
isAdminCommand(k) == k = "admin"

\* the aliases typed that match [a-z0-9]{2,20}, and the PINs of 4 to 6 digits
AliasShaped == {r.alias : r \in barbers} \cup {"nadie"}
PinShaped == {1234, 9999}

\* AdminCommand.parse: null unless alias and pin are well formed
NullCommand == [alias |-> "null", pin |-> 0]
parse(k, s, n) ==
  IF k = "admin" /\ s \in AliasShaped /\ n \in PinShaped
  THEN [alias |-> s, pin |-> n]
  ELSE NullCommand

StoreUnchanged == UNCHANGED <<appts, nextId, history, blocked, notes, clients, sweep>>
ClockUnchanged == UNCHANGED <<now, hostAhead, events>>

\* one more inbound message is taken
Inbound == events' = events + 1 /\ UNCHANGED <<now, hostAhead>>

\* conversationState.get(p): the session object, Free when there is none
Session(p) == IF conv[p] = NoObj THEN Free ELSE objs[conv[p]]

\* the tasks once another message of p has come in
Overtaken(p) ==
  [u \in Tasks |-> IF tasks[u].pc # "idle" /\ tasks[u].ph = p
                   THEN [tasks[u] EXCEPT !.alone = FALSE] ELSE tasks[u]]

\* the handler of slot t ends the session with conversationState.delete
\* followed by #clearInactivityTimer
deleteThenClear(ts, t) ==
  [ts EXCEPT ![t].ends = <<"conversationState.delete", "clearInactivityTimer">>]

\* the handler of slot t ends the session with #clearInactivityTimer followed
\* by conversationState.delete
clearThenDelete(ts, t) ==
  [ts EXCEPT ![t].ends = <<"clearInactivityTimer", "conversationState.delete">>]

\* a task parked on an await, with what it has sent so far
Park(t, ts, pc, msgs) ==
  [ts EXCEPT ![t].pc = pc, ![t].out = ts[t].out \o msgs]

\* String.prototype.toLowerCase on the texts a barber types
toLowerCase(s) ==
  CASE s = "CANCELAR" -> "cancelar"
    [] s = "Cancelar" -> "cancelar"
    [] OTHER -> s

\* ------------------------------------------------- inbound text, routing
\* WebhookHandler.handleMessage from the admin-session check on, with the
\* conversation map c and the timers tm the earlier lines left.
RouteText(t, p, k, s, c, tm, ts) ==
  IF admin[p] # NoObj /\ aobjs[admin[p]].state = "waiting_note" THEN
    \* AdminPanelHandler.handleTextMessage
    IF toLowerCase(s) = "cancelar" THEN
      /\ Commit(c, objs, admin, [aobjs EXCEPT ![admin[p]].state = "menu"],
                Park(t, ts, "send", <<"adminMenu">>))
      /\ timers' = tm /\ welcomed' = welcomed
    ELSE
      /\ Commit(c, objs, admin, aobjs,
                Park(t, [ts EXCEPT ![t].aref = admin[p],
                                   ![t].n = aobjs[admin[p]].noteAppointmentId],
                     "noteFind", <<>>))
      /\ timers' = tm /\ welcomed' = welcomed
  ELSE IF c[p] # NoObj THEN
    IF k = "menu" THEN
      /\ Commit([c EXCEPT ![p] = NoObj], objs, admin, aobjs,
                Park(t, clearThenDelete(ts, t), "send", <<"welcomeMenu">>))
      /\ timers' = clearInactivityTimer(tm, p) /\ welcomed' = welcomed
    ELSE
      \* WebhookHandler.#handleConversationFlow
      LET st == objs[c[p]] IN
      IF st.step = "other_phone" THEN
        IF k # "phone" THEN
          /\ Commit(c, objs, admin, aobjs, Park(t, ts, "send", <<"invalidPhone">>))
          /\ timers' = tm /\ welcomed' = welcomed
        ELSE
          /\ Commit(c, objs, admin, aobjs,
                    Park(t, [ts EXCEPT ![t].ref = c[p]], "otherCheck", <<>>))
          /\ timers' = tm /\ welcomed' = welcomed
      ELSE IF st.step = "name" THEN
        IF k = "short" THEN
          /\ Commit(c, objs, admin, aobjs, Park(t, ts, "send", <<"invalidName">>))
          /\ timers' = tm /\ welcomed' = welcomed
        ELSE
          /\ Commit(c, [objs EXCEPT ![c[p]].customerName = capitalizeName(s),
                                     ![c[p]].step = "barber"],
                    admin, aobjs, Park(t, ts, "send", <<"barberSelection">>))
          /\ timers' = tm /\ welcomed' = welcomed
      ELSE
        /\ Commit([c EXCEPT ![p] = NoObj], objs, admin, aobjs,
                  Park(t, deleteThenClear(ts, t), "send", <<"welcomeMenu">>))
        /\ timers' = clearInactivityTimer(tm, p) /\ welcomed' = welcomed
  ELSE IF p \notin welcomed THEN
    /\ Commit(c, objs, admin, aobjs, Park(t, ts, "send", <<"welcomeMenu">>))
    /\ timers' = tm /\ welcomed' = welcomed \cup {p}
  ELSE IF k = "agendar" THEN
    \* WebhookHandler.#startScheduling
    LET o == NewObj(objs, Free)
        c2 == [c EXCEPT ![p] = o]
    IN  /\ Commit(c2, [objs EXCEPT ![o] = NewSession("name", TRUE, p)],
                  admin, aobjs, Park(t, ts, "send", <<"askName">>))
        /\ timers' = resetInactivityTimer(tm, c2, p) /\ welcomed' = welcomed
  ELSE
    /\ Commit(c, objs, admin, aobjs, Park(t, ts, "send", <<"welcomeMenu">>))
    /\ timers' = tm /\ welcomed' = welcomed

\* the texts a customer or barber types
Texts ==
  {[k |-> "menu", s |-> "menu", n |-> 0], [k |-> "text", s |-> "ana", n |-> 0],
   [k |-> "agendar", s |-> "agendar", n |-> 0]}
  \cup {[k |-> "phone", s |-> q, n |-> 0] : q \in Phones}

\* the texts only a barber types
\* "admin <alias> <pin>" with the right and a wrong PIN of carlos, and
\* "admin x"
AdminTexts ==
  {[k |-> "admin", s |-> "carlos", n |-> pin] : pin \in PinShaped}
  \cup {[k |-> "admin", s |-> "x", n |-> 0]}

\* "admin <alias> <pin>" with an alias nobody has, the alias of the barber who
\* left and the alias of the barber without PIN
OtherAdminTexts ==
  {[k |-> "admin", s |-> a, n |-> 1234] : a \in {"nadie", "david", "nuevo"}}

\* the phones the barbers write from
BarberPhones == {"p2"}

\* the lowest idle task slot takes the next inbound event
IsNextSlot(t) ==
  /\ events < MaxEvents
  /\ tasks[t].pc = "idle"
  /\ \A u \in Tasks : tasks[u].pc = "idle" => t <= u

\* WebhookHandler.handleMessage, a text message, up to its first await
ArriveText(t, p, e) ==
  /\ IsNextSlot(t)
  /\ LET ts == [Overtaken(p) EXCEPT ![t] = [Idle EXCEPT !.pc = "run", !.ph = p,
                                            !.k = e.k, !.s = e.s, !.n = e.n,
                                            !.was = Session(p),
                                            !.first = p \in expired,
                                            !.alone = ~InFlight(p)]]
         tm == resetInactivityTimer(timers, conv, p)
     IN  IF isAdminCommand(e.k) THEN
           LET c == [conv EXCEPT ![p] = NoObj]
               tm2 == clearInactivityTimer(tm, p)
               ts2 == IF conv[p] # NoObj THEN deleteThenClear(ts, t) ELSE ts
           IN  IF parse(e.k, e.s, e.n) = NullCommand
               THEN RouteText(t, p, e.k, e.s, c, tm2, ts2)
               ELSE /\ Commit(c, objs, admin, aobjs, Park(t, ts2, "auth", <<>>))
                    /\ timers' = tm2 /\ welcomed' = welcomed
         ELSE RouteText(t, p, e.k, e.s, conv, tm, ts)
  /\ expired' = expired \ {p}
  /\ StoreUnchanged /\ Inbound

\* the handler's last await (a messaging send) resolves and it returns
Finish(t) ==
  /\ tasks[t].pc = "send"
  /\ Commit(conv, objs, admin, aobjs, [tasks EXCEPT ![t] = Idle])
  /\ UNCHANGED <<timers, welcomed, expired>>
  /\ StoreUnchanged /\ ClockUnchanged

\* ------------------------------------------------------ inbound selections
\* WebhookHandler.#startScheduling
startScheduling(t, p, c, tm, ts) ==
  LET o == NewObj(objs, Free)
      c2 == [c EXCEPT ![p] = o]
  IN  /\ Commit(c2, [objs EXCEPT ![o] = NewSession("name", TRUE, p)],
                admin, aobjs, Park(t, ts, "send", <<"askName">>))
      /\ timers' = resetInactivityTimer(tm, c2, p)
      /\ welcomed' = welcomed

\* WebhookHandler.#startSchedulingForOther
startSchedulingForOther(t, p, c, tm, ts) ==
  LET o == NewObj(objs, Free)
      c2 == [c EXCEPT ![p] = o]
  IN  /\ Commit(c2, [objs EXCEPT ![o] = NewSession("other_phone", FALSE, "none")],
                admin, aobjs, Park(t, ts, "send", <<"askPhone">>))
      /\ timers' = resetInactivityTimer(tm, c2, p)
      /\ welcomed' = welcomed

\* a handler that asks only whether p has a session
AtAnyStep(c, p, step) == c[p] # NoObj

\* the session of p has reached the given step
AtStep(c, p, step) == c[p] # NoObj /\ objs[c[p]].step = step

\* a handler step that changes neither map nor heap
Goto(t, ts, pc, msgs) ==
  /\ Commit(conv, objs, admin, aobjs, Park(t, ts, pc, msgs))
  /\ UNCHANGED <<timers, welcomed>>

AdminKinds ==
  {"adm_menu", "adm_exit", "adm_blockdate", "adm_blocktime", "adm_unblock",
   "adm_complete", "adm_cancel", "adm_note"}

\* AdminPanelHandler.handleInteractiveResponse, a session being open
AdminSelection(t, p, e, tm, ts) ==
  LET a == admin[p] IN
  /\ welcomed' = welcomed
  /\ timers' = tm
  /\ CASE e.k = "adm_menu" ->
            Commit(conv, objs, admin, aobjs, Park(t, ts, "send", <<"adminMenu">>))
       [] e.k = "adm_exit" ->
            Commit(conv, objs, [admin EXCEPT ![p] = NoObj], aobjs,
                   Park(t, ts, "send", <<"adminBye">>))
       [] e.k = "adm_blockdate" ->
            Commit(conv, objs, admin, [aobjs EXCEPT ![a].blockDate = e.n],
                   Park(t, ts, "send", <<"blockTimeMenu">>))
       [] e.k = "adm_blocktime" ->
            Commit(conv, objs, admin, aobjs,
                   Park(t, [ts EXCEPT ![t].aref = a,
                                      ![t].s = aobjs[a].barber,
                                      ![t].dt = IF aobjs[a].blockDate # NoDate
                                                THEN NoonOf(aobjs[a].blockDate)
                                                ELSE now],
                        "blockFind", <<>>))
       [] e.k = "adm_unblock" ->
            \* UnblockTimeSlot.execute calls deleteByBarberDateTime on the
            \* repository main.js hands it, PostgreSQLAppointmentRepository,
            \* which has no method of that name: the TypeError is caught by
            \* handleInteractiveResponse
            Commit(conv, objs, admin, aobjs, Park(t, ts, "send", <<"adminError">>))
       [] e.k = "adm_complete" ->
            Commit(conv, objs, admin, aobjs,
                   Park(t, [ts EXCEPT ![t].aref = a, ![t].s = aobjs[a].barber],
                        "completeFind", <<>>))
       [] e.k = "adm_cancel" ->
            Commit(conv, objs, admin, aobjs,
                   Park(t, [ts EXCEPT ![t].aref = a, ![t].s = aobjs[a].barber],
                        "barberCancelFind", <<>>))
       [] e.k = "adm_note" ->
            Commit(conv, objs, admin,
                   [aobjs EXCEPT ![a].state = "waiting_note",
                                 ![a].noteAppointmentId = e.n],
                   Park(t, ts, "send", <<"askNote">>))

\* WebhookHandler.#handleInteractiveResponse past the admin branch
CustomerSelection(t, p, e, tm, ts) ==
  CASE e.k = "btn_agendar" ->
         /\ Commit(conv, objs, admin, aobjs, Park(t, ts, "startCheck", <<>>))
         /\ timers' = tm /\ welcomed' = welcomed
    [] e.k = "btn_agendar_otro" -> startSchedulingForOther(t, p, conv, tm, ts)
    [] e.k = "btn_otra_fecha" ->
         \* WebhookHandler.#goBackToDateSelection
         IF conv[p] = NoObj \/ objs[conv[p]].barberId = "none"
            \/ objs[conv[p]].serviceType = "none"
         THEN /\ Commit(conv, objs, admin, aobjs, Park(t, ts, "startCheck", <<>>))
              /\ timers' = tm /\ welcomed' = welcomed
         ELSE /\ Commit(conv, [objs EXCEPT ![conv[p]].step = "date",
                                            ![conv[p]].date = NoDate],
                        admin, aobjs, Park(t, ts, "send", <<"dateSelection">>))
              /\ timers' = tm /\ welcomed' = welcomed
    [] e.k = "btn_menu" ->
         /\ Commit([conv EXCEPT ![p] = NoObj], objs, admin, aobjs,
                   Park(t, IF conv[p] # NoObj THEN deleteThenClear(ts, t) ELSE ts,
                        "send", <<"welcomeMenu">>))
         /\ timers' = clearInactivityTimer(tm, p) /\ welcomed' = welcomed
    [] e.k = "cancel" ->
         /\ Commit(conv, objs, admin, aobjs, Park(t, ts, "cancelFind", <<>>))
         /\ timers' = tm /\ welcomed' = welcomed
    [] e.k = "barber" ->
         \* WebhookHandler.#handleBarberSelection
         IF ~AtStep(conv, p, "barber") THEN startScheduling(t, p, conv, tm, ts)
         ELSE /\ Commit(conv, objs, admin, aobjs,
                        Park(t, [ts EXCEPT ![t].ref = conv[p]], "barberFind", <<>>))
              /\ timers' = tm /\ welcomed' = welcomed
    [] e.k = "srv" ->
         \* WebhookHandler.#handleServiceSelection
         IF ~AtStep(conv, p, "service") THEN startScheduling(t, p, conv, tm, ts)
         ELSE IF e.s \notin Services THEN
              /\ Commit(conv, objs, admin, aobjs,
                        Park(t, ts, "send", <<"serviceSelection">>))
              /\ timers' = tm /\ welcomed' = welcomed
         ELSE /\ Commit(conv, [objs EXCEPT ![conv[p]].serviceType = e.s,
                                            ![conv[p]].step = "date"],
                        admin, aobjs, Park(t, ts, "send", <<"dateSelection">>))
              /\ timers' = tm /\ welcomed' = welcomed
    [] e.k = "date" ->
         \* WebhookHandler.#handleDateSelection up to the first store read
         IF ~AtStep(conv, p, "date") THEN startScheduling(t, p, conv, tm, ts)
         ELSE /\ Commit(conv, objs, admin, aobjs,
                        Park(t, [ts EXCEPT ![t].ref = conv[p],
                                           ![t].s = objs[conv[p]].barberId,
                                           ![t].dt = NoonOf(e.n),
                                           ![t].gen = generateTimeSlots(NoonOf(e.n))],
                             "slotsBooked", <<>>))
              /\ timers' = tm /\ welcomed' = welcomed
    [] e.k = "time" ->
         \* WebhookHandler.#handleTimeSelection up to the availability read
         IF ~AtStep(conv, p, "time") THEN startScheduling(t, p, conv, tm, ts)
         ELSE LET dateTime == ParseLocal(objs[conv[p]].date, e.n * MinutesPerHour)
                  nowColombia == getColombiaTime
                  dateTimeColombia == ToColombia(dateTime)
              IN  IF dateTimeColombia <= nowColombia THEN
                    /\ Commit([conv EXCEPT ![p] = NoObj], objs, admin, aobjs,
                              Park(t, deleteThenClear(ts, t), "send",
                                   <<"alreadyPassed">>))
                    /\ timers' = clearInactivityTimer(tm, p)
                    /\ welcomed' = welcomed
                  ELSE
                    /\ Commit(conv, objs, admin, aobjs,
                              Park(t, [ts EXCEPT ![t].ref = conv[p],
                                                 ![t].s = objs[conv[p]].barberId,
                                                 ![t].dt = dateTime],
                                   "timeAvail", <<>>))
                    /\ timers' = tm /\ welcomed' = welcomed
    [] e.k = "btn_mas_horarios" ->
         \* WebhookHandler.#handleMoreTimeSlots
         IF ~AtStep(conv, p, "time") \/ ~objs[conv[p]].hasSlots
         THEN startScheduling(t, p, conv, tm, ts)
         ELSE LET o == conv[p]
                  timePage == objs[o].timePage + 1
                  sent == sendTimeSelection(objs[o].availableSlots, timePage)
              IN  /\ Commit(conv, [objs EXCEPT ![o].timePage = timePage],
                            admin, aobjs,
                            Park(t, [ts EXCEPT ![t].page = sent.rows], "send",
                                 sent.msgs))
                  /\ timers' = tm /\ welcomed' = welcomed
    [] OTHER ->
         /\ Commit(conv, objs, admin, aobjs, Park(t, ts, "send", <<"welcomeMenu">>))
         /\ timers' = tm /\ welcomed' = welcomed

\* the ids the bot puts on its buttons and lists
\* appointment ids name appointments that were created
ApptIds == 1..nextId
Selections ==
  {[k |-> x, s |-> "none", n |-> 0] :
     x \in {"btn_agendar", "btn_agendar_otro", "btn_otra_fecha", "btn_menu"}}
  \cup {[k |-> "cancel", s |-> "none", n |-> i] : i \in ApptIds}
  \cup {[k |-> "barber", s |-> b, n |-> 0] : b \in BarberIds}
  \cup {[k |-> "srv", s |-> v, n |-> 0] : v \in ServiceIds}
  \cup {[k |-> "date", s |-> "none", n |-> d] : d \in Dates}
  \cup {[k |-> "time", s |-> "none", n |-> h] : h \in TimeHours}

\* the ids on the admin panel's buttons and lists
AdminSelections ==
  {[k |-> x, s |-> "none", n |-> 0] : x \in {"adm_menu", "adm_exit"}}
  \cup {[k |-> x, s |-> "none", n |-> i] : x \in {"adm_complete", "adm_note"}, i \in ApptIds}
  \cup {[k |-> "adm_blockdate", s |-> "none", n |-> d] : d \in Dates}
  \cup {[k |-> "adm_blocktime", s |-> "none", n |-> h] : h \in TimeHours}

\* the buttons of the appointment list, the menu and the logout
StaffSelections ==
  {[k |-> x, s |-> "none", n |-> 0] : x \in {"adm_menu", "adm_exit"}}
  \cup {[k |-> x, s |-> "none", n |-> i] :
          x \in {"adm_complete", "adm_cancel", "adm_note"}, i \in ApptIds}

\* the ids of the block menus, the hours being those of the list and the
\* closing hour, which no list offers, and of the unblock button
BlockSelections ==
  {[k |-> "adm_blockdate", s |-> "none", n |-> d] : d \in Dates}
  \cup {[k |-> "adm_blocktime", s |-> "none", n |-> h] :
          h \in TimeHours \cup {working_hours_end}}
  \cup {[k |-> "adm_unblock", s |-> "none", n |-> h] : h \in TimeHours}

\* the cancel buttons a customer is shown
CancelSelections == {[k |-> "cancel", s |-> "none", n |-> i] : i \in ApptIds}

\* the bookings and the blocks in flight that have not taken their id yet
Unsaved == {u \in Tasks : tasks[u].k = "time" /\ tasks[u].pc # "idle"
                             /\ (tasks[u].apt = NoAppt \/ tasks[u].apt.id = 0)}

\* WebhookHandler.handleMessage, an interactive message, up to its first await
ArriveSelection(t, p, e) ==
  /\ IsNextSlot(t)
  /\ e.k = "time" => nextId + Cardinality(Unsaved) < MaxAppts
  /\ LET ts == [Overtaken(p) EXCEPT ![t] = [Idle EXCEPT !.pc = "run", !.ph = p,
                                            !.k = e.k, !.s = e.s, !.n = e.n,
                                            !.was = Session(p),
                                            !.first = p \in expired,
                                            !.alone = ~InFlight(p)]]
         tm == resetInactivityTimer(timers, conv, p)
     IN  IF e.k \in AdminKinds /\ admin[p] # NoObj
         THEN AdminSelection(t, p, e, tm, ts)
         ELSE CustomerSelection(t, p, e, tm, ts)
  /\ expired' = expired \ {p}
  /\ StoreUnchanged /\ Inbound

\* ------------------------------------------------ continuations, customer
Self(t) == tasks[t].ph

\* AdminPanelHandler.handleCommand after AuthenticateBarber.execute resolved
StepAuth(t) ==
  /\ tasks[t].pc = "auth"
  /\ LET command == parse(tasks[t].k, tasks[t].s, tasks[t].n)
         authResult == AuthenticateBarber(command.alias, command.pin)
     IN  IF authResult.success THEN
           LET o == NewObj(aobjs, AFree) IN
           Commit(conv, objs, [admin EXCEPT ![Self(t)] = o],
                  [aobjs EXCEPT ![o] = [LoggedIn EXCEPT !.barber = authResult.barber]],
                  Park(t, tasks, "send", <<"adminMenu">>))
         ELSE Commit(conv, objs, admin, aobjs,
                     Park(t, tasks, "send", <<authResult.error>>))
  /\ UNCHANGED <<timers, welcomed, expired>>
  /\ StoreUnchanged /\ ClockUnchanged

\* WebhookHandler.#handleConversationFlow, step other_phone, after
\* hasActiveAppointment(cleanPhone) resolved
StepOtherCheck(t) ==
  /\ tasks[t].pc = "otherCheck"
  /\ LET p == Self(t)
         o == tasks[t].ref
         cleanPhone == tasks[t].s
     IN  IF hasActiveAppointment(cleanPhone) THEN
           /\ Commit([conv EXCEPT ![p] = NoObj], objs, admin, aobjs,
                     Park(t, deleteThenClear(tasks, t), "send",
                          <<"otherHasAppointment">>))
           /\ timers' = clearInactivityTimer(timers, p)
         ELSE
           /\ Commit([conv EXCEPT ![p] = o],
                     [objs EXCEPT ![o].targetPhone = cleanPhone, ![o].step = "name"],
                     admin, aobjs, Park(t, tasks, "send", <<"askOtherName">>))
           /\ timers' = timers
  /\ UNCHANGED <<welcomed, expired>>
  /\ StoreUnchanged /\ ClockUnchanged

\* WebhookHandler.#checkAndStartScheduling after hasActiveAppointment resolved
StepStartCheck(t) ==
  /\ tasks[t].pc = "startCheck"
  /\ IF hasActiveAppointment(Self(t))
     THEN Goto(t, tasks, "startShow", <<>>)
     ELSE startScheduling(t, Self(t), conv, timers, tasks)
  /\ UNCHANGED expired
  /\ StoreUnchanged /\ ClockUnchanged

\* WebhookHandler.#checkAndStartScheduling after findByPhone resolved;
\* existing.barberId of null throws
StepStartShow(t) ==
  /\ tasks[t].pc = "startShow"
  /\ IF findByPhone(Self(t)) = NoAppt
     THEN Goto(t, tasks, "send", <<"unhandled">>)
     ELSE Goto(t, tasks, "send", <<"alreadyHave">>)
  /\ UNCHANGED expired
  /\ StoreUnchanged /\ ClockUnchanged

\* WebhookHandler.#handleBarberSelection after findBarberById resolved
StepBarberFind(t) ==
  /\ tasks[t].pc = "barberFind"
  /\ LET o == tasks[t].ref IN
     IF ~findBarberById(tasks[t].s)
     THEN Commit(conv, objs, admin, aobjs, Park(t, tasks, "send", <<"barberSelection">>))
     ELSE Commit([conv EXCEPT ![Self(t)] = o],
                 [objs EXCEPT ![o].barberId = tasks[t].s, ![o].step = "service"],
                 admin, aobjs, Park(t, tasks, "send", <<"serviceSelection">>))
  /\ UNCHANGED <<timers, welcomed, expired>>
  /\ StoreUnchanged /\ ClockUnchanged

\* PostgreSQLAppointmentRepository.getAvailableSlots: getBookedSlots resolved
StepSlotsBooked(t) ==
  /\ tasks[t].pc = "slotsBooked"
  /\ Goto(t, [tasks EXCEPT ![t].booked = getBookedSlots(tasks[t].s, tasks[t].dt)],
          "slotsBlocked", <<>>)
  /\ UNCHANGED expired
  /\ StoreUnchanged /\ ClockUnchanged

\* getAvailableSlots: findBlockedSlotsByBarberAndDate resolved, and the caller
\* (handleDateSelection, or handleTimeSelection's slot-taken branch) goes on
StepSlotsBlocked(t) ==
  /\ tasks[t].pc = "slotsBlocked"
  /\ LET o == tasks[t].ref
         availableSlots ==
           SlotSeq(filterSlots(tasks[t].gen, tasks[t].booked,
                               findBlockedSlotsByBarberAndDate(tasks[t].s, tasks[t].dt)))
         sent == sendTimeSelection(availableSlots, 0)
         ts == [tasks EXCEPT ![t].page = sent.rows]
     IN  IF tasks[t].k = "date" THEN
           Commit([conv EXCEPT ![Self(t)] = o],
                  [objs EXCEPT ![o].date = tasks[t].n, ![o].step = "time",
                               ![o].availableSlots = availableSlots,
                               ![o].hasSlots = TRUE, ![o].timePage = 0],
                  admin, aobjs, Park(t, ts, "send", sent.msgs))
         ELSE
           Commit(conv, objs, admin, aobjs,
                  Park(t, ts, "send", <<"slotTaken">> \o sent.msgs))
  /\ UNCHANGED <<timers, welcomed, expired>>
  /\ StoreUnchanged /\ ClockUnchanged

\* the Appointment ScheduleAppointment.execute is asked to create
Request(st, p, dateTime) ==
  [id |-> 0,
   phone |-> IF st.targetPhone # "none" THEN st.targetPhone ELSE p,
   name |-> st.customerName, barber |-> st.barberId,
   service |-> st.serviceType, dt |-> dateTime, status |-> "pending"]

\* WebhookHandler.#handleTimeSelection after isSlotAvailable resolved, into
\* ScheduleAppointment.execute up to its first store read
StepTimeAvail(t) ==
  /\ tasks[t].pc = "timeAvail"
  /\ LET p == Self(t)
         st == objs[tasks[t].ref]
     IN  IF ~isSlotAvailable(tasks[t].s, tasks[t].dt) THEN
           IF st.date = NoDate
           THEN Goto(t, tasks, "send", <<"unhandled">>)
           ELSE Goto(t, [tasks EXCEPT ![t].dt = NoonOf(st.date),
                                      ![t].gen = generateTimeSlots(NoonOf(st.date))],
                     "slotsBooked", <<>>)
         ELSE
           LET isForOther == ~st.forSelf
               ts == deleteThenClear(
                       [tasks EXCEPT ![t].apt = Request(st, p, tasks[t].dt),
                                     ![t].s = IF isForOther THEN "other" ELSE "self"], t)
           IN  /\ timers' = clearInactivityTimer(timers, p)
               /\ welcomed' = welcomed
               /\ IF ~isForOther THEN
                    Commit([conv EXCEPT ![p] = NoObj], objs, admin, aobjs,
                           Park(t, ts, "schedActive", <<>>))
                  ELSE IF tasks[t].dt <= now THEN
                    Commit([conv EXCEPT ![p] = NoObj], objs, admin, aobjs,
                           Park(t, ts, "send", <<"mustBeFuture">>))
                  ELSE
                    Commit([conv EXCEPT ![p] = NoObj], objs, admin, aobjs,
                           Park(t, ts, "schedAvail", <<>>))
  /\ UNCHANGED expired
  /\ StoreUnchanged /\ ClockUnchanged

\* ScheduleAppointment.execute after hasActiveAppointment resolved
StepSchedActive(t) ==
  /\ tasks[t].pc = "schedActive"
  /\ IF hasActiveAppointment(tasks[t].apt.phone)
     THEN Goto(t, tasks, "schedExisting", <<>>)
     ELSE IF tasks[t].apt.dt <= now
     THEN Goto(t, tasks, "send", <<"mustBeFuture">>)
     ELSE Goto(t, tasks, "schedAvail", <<>>)
  /\ UNCHANGED expired
  /\ StoreUnchanged /\ ClockUnchanged

\* ScheduleAppointment.execute after findByPhone resolved; existing.id of null
\* throws
StepSchedExisting(t) ==
  /\ tasks[t].pc = "schedExisting"
  /\ IF findByPhone(tasks[t].apt.phone) = NoAppt
     THEN Goto(t, tasks, "send", <<"unhandled">>)
     ELSE Goto(t, tasks, "send", <<"alreadyHave">>)
  /\ UNCHANGED expired
  /\ StoreUnchanged /\ ClockUnchanged

\* ScheduleAppointment.execute after isSlotAvailable resolved: new Appointment,
\* and save's SELECT by id, which finds nothing for a fresh id
StepSchedAvail(t) ==
  /\ tasks[t].pc = "schedAvail"
  /\ IF ~isSlotAvailable(tasks[t].apt.barber, tasks[t].apt.dt) THEN
       /\ Goto(t, tasks, "send", <<"slotUnavailable">>)
       /\ nextId' = nextId
     ELSE
       /\ Goto(t, [tasks EXCEPT ![t].apt.id = nextId + 1], "saveSelPhone", <<>>)
       /\ nextId' = nextId + 1
  /\ UNCHANGED <<appts, history, blocked, notes, clients, expired, sweep>>
  /\ ClockUnchanged

\* ------------------------------------- PostgreSQLAppointmentRepository.save
\* what the caller of save does once it resolves
Saved(t, ts) ==
  IF tasks[t].k = "adm_cancel" THEN Park(t, ts, "notify", <<>>)
  ELSE Park(t, ts, "send",
            IF tasks[t].k = "time"
            THEN IF tasks[t].s = "other" THEN <<"confirmation", "bookedForOther">>
                 ELSE <<"confirmation">>
            ELSE IF tasks[t].k = "cancel" THEN <<"cancellation">>
            ELSE <<"completed">>)

\* what becomes of the handler when save throws: AddClientNote.execute
\* catches and #handleAddNote reports the error, AdminPanelHandler catches,
\* the selection path of handleMessage does not
Thrown(t, ts) ==
  IF tasks[t].apt.id = NoteId THEN Park(t, ts, "noteSent", <<"noteError">>)
  ELSE Park(t, ts, "send",
            IF tasks[t].k \in {"adm_complete", "adm_cancel"}
            THEN <<"adminError">> ELSE <<"unhandled">>)

\* SELECT id FROM appointments WHERE id = $1
StepSaveSelId(t) ==
  /\ tasks[t].pc = "saveSelId"
  /\ IF \E a \in appts : a.id = tasks[t].apt.id
     THEN Goto(t, tasks, "saveUpd", <<>>)
     ELSE Goto(t, tasks, "saveSelPhone", <<>>)
  /\ UNCHANGED expired
  /\ StoreUnchanged /\ ClockUnchanged

\* UPDATE appointments SET ... WHERE id = $7
StepSaveUpd(t) ==
  /\ tasks[t].pc = "saveUpd"
  /\ appts' = {IF a.id = tasks[t].apt.id THEN tasks[t].apt ELSE a : a \in appts}
  /\ Goto(t, Saved(t, tasks), Saved(t, tasks)[t].pc, <<>>)
  /\ UNCHANGED <<nextId, history, blocked, notes, clients, expired, sweep>>
  /\ ClockUnchanged

\* SELECT id FROM appointments WHERE phone_number = $1
StepSaveSelPhone(t) ==
  /\ tasks[t].pc = "saveSelPhone"
  /\ LET rows == {a \in appts : a.phone = tasks[t].apt.phone} IN
     IF rows = {}
     THEN Goto(t, tasks, "saveIns", <<>>)
     ELSE Goto(t, [tasks EXCEPT ![t].n = (CHOOSE a \in rows : TRUE).id], "saveDel", <<>>)
  /\ UNCHANGED expired
  /\ StoreUnchanged /\ ClockUnchanged

\* DELETE FROM appointments WHERE id = $1
StepSaveDel(t) ==
  /\ tasks[t].pc = "saveDel"
  /\ appts' = {a \in appts : a.id # tasks[t].n}
  /\ Goto(t, tasks, "saveIns", <<>>)
  /\ UNCHANGED <<nextId, history, blocked, notes, clients, expired, sweep>>
  /\ ClockUnchanged

\* the appointments table without UNIQUE on phone_number
ViolatesPrimaryKey(row) == \E a \in appts : a.id = row.id

\* the row violates PRIMARY KEY (id) or UNIQUE (phone_number)
ViolatesUnique(row) == \E a \in appts : a.id = row.id \/ a.phone = row.phone

\* the row violates customer_name TEXT NOT NULL
ViolatesNotNull(row) == row.name = "null"

\* INSERT INTO appointments ...
StepSaveIns(t) ==
  /\ tasks[t].pc = "saveIns"
  /\ IF ViolatesNotNull(tasks[t].apt) \/ ViolatesUnique(tasks[t].apt) THEN
       /\ appts' = appts
       /\ Goto(t, Thrown(t, tasks), Thrown(t, tasks)[t].pc, <<>>)
     ELSE
       /\ appts' = appts \cup {tasks[t].apt}
       /\ Goto(t, Saved(t, tasks), Saved(t, tasks)[t].pc, <<>>)
  /\ UNCHANGED <<nextId, history, blocked, notes, clients, expired, sweep>>
  /\ ClockUnchanged

\* ------------------------------------------------- Appointment operations
\* what an operation that throws yields
Threw == [id |-> "threw"]

\* Appointment.confirm: refused once cancelled
confirm(a) ==
  IF a.status = "cancelled" THEN Threw ELSE [a EXCEPT !.status = "confirmed"]

\* Appointment.cancel: refused once completed
cancel(a) ==
  IF a.status = "completed" THEN Threw ELSE [a EXCEPT !.status = "cancelled"]

\* Appointment.complete
complete(a) == [a EXCEPT !.status = "completed"]

\* ------------------------------------------------------------ cancellation
\* ListAppointments.execute
ListAppointments(ph) ==
  LET a == findByPhone(ph)
  IN  IF a = NoAppt \/ a.status = "cancelled" \/ isPast(a) THEN {} ELSE {a}

\* WebhookHandler.#handleCancel after ListAppointments.execute resolved
StepCancelFind(t) ==
  /\ tasks[t].pc = "cancelFind"
  /\ IF \E a \in ListAppointments(Self(t)) : a.id = tasks[t].n
     THEN Goto(t, tasks, "cancelLoad", <<>>)
     ELSE Goto(t, tasks, "send", <<"notFound">>)
  /\ UNCHANGED expired
  /\ StoreUnchanged /\ ClockUnchanged

\* SELECT * FROM appointments WHERE id = $1
findById(id) ==
  LET rows == {a \in appts : a.id = id}
  IN  IF rows = {} THEN NoAppt ELSE CHOOSE a \in rows : TRUE

\* CancelAppointment.execute after findById resolved
StepCancelLoad(t) ==
  /\ tasks[t].pc = "cancelLoad"
  /\ LET appointment == findById(tasks[t].n) IN
     IF appointment = NoAppt THEN Goto(t, tasks, "send", <<"notFound">>)
     ELSE IF appointment.phone # Self(t) THEN Goto(t, tasks, "send", <<"notYours">>)
     ELSE IF appointment.status = "cancelled"
     THEN Goto(t, tasks, "send", <<"alreadyCancelled">>)
     ELSE IF cancel(appointment) = Threw
     THEN Goto(t, tasks, "send", <<"unhandled">>)
     ELSE Goto(t, [tasks EXCEPT ![t].apt = cancel(appointment)], "saveSelId", <<>>)
  /\ UNCHANGED expired
  /\ StoreUnchanged /\ ClockUnchanged

\* -------------------------------------------------- continuations, barber
\* SELECT * FROM appointments WHERE date_time BETWEEN $1 AND $2
\*   AND status != 'cancelled'
findByDateRange(startDate, endDate) ==
  {a \in appts : a.dt >= startDate /\ a.dt <= endDate /\ a.status # "cancelled"}

\* the ownership test left out: every appointment passes for the barber's own
ownedByAnyone(apt, barberId) == TRUE

\* apt.barberId === barberId, in #findAppointmentByPrefix and in the check
\* that follows it
ownedBy(apt, barberId) == apt.barber = barberId

\* the cancellation undone when the notification fails
StepNotifyReverting(t) ==
  /\ tasks[t].pc = "notify"
  /\ \E delivered \in BOOLEAN :
       IF delivered
       THEN /\ Commit(conv, objs, admin, aobjs,
                      [tasks EXCEPT ![t].pc = "send",
                                    ![t].out = <<"cancelledByBarber", "cancelReport">>])
            /\ appts' = appts
       ELSE /\ Commit(conv, objs, admin, aobjs,
                      [tasks EXCEPT ![t].pc = "send",
                                    ![t].out = <<"cancelledByBarberFailed", "adminError">>])
            /\ appts' = {IF a.id = tasks[t].apt.id
                         THEN [a EXCEPT !.status = "pending"] ELSE a : a \in appts}
  /\ UNCHANGED <<timers, welcomed, expired, nextId, history, blocked, notes, clients, sweep>>
  /\ ClockUnchanged

\* #findAppointmentByPrefix of the admin use cases, over the rows
\* findByDateRange returned
findAppointmentByPrefix(rows, barberId, prefix) ==
  {a \in rows : ownedBy(a, barberId) /\ a.id = prefix /\ a.status # "cancelled"}

\* CompleteAppointment.execute after #findAppointmentByPrefix resolved
StepCompleteFind(t) ==
  /\ tasks[t].pc = "completeFind"
  /\ LET today == SetHours(now, 0)
         tomorrow == today + 2 * DayMinutes - 1
         found == findAppointmentByPrefix(findByDateRange(today, tomorrow),
                                          tasks[t].s, tasks[t].n)
     IN  IF found = {} THEN Goto(t, tasks, "send", <<"notFound">>)
         ELSE LET appointment == CHOOSE a \in found : TRUE IN
              IF ~ownedBy(appointment, tasks[t].s)
              THEN Goto(t, tasks, "send", <<"noPermission">>)
              ELSE IF appointment.status = "completed"
              THEN Goto(t, tasks, "send", <<"alreadyCompleted">>)
              ELSE IF appointment.status = "cancelled"
              THEN Goto(t, tasks, "send", <<"isCancelled">>)
              ELSE Goto(t, [tasks EXCEPT ![t].apt = complete(appointment)],
                        "saveSelId", <<>>)
  /\ UNCHANGED expired
  /\ StoreUnchanged /\ ClockUnchanged

\* CancelAppointmentByBarber.execute after #findAppointmentByPrefix resolved
StepBarberCancelFind(t) ==
  /\ tasks[t].pc = "barberCancelFind"
  /\ LET today == SetHours(now, 0)
         tomorrow == today + 7 * DayMinutes
         found == findAppointmentByPrefix(findByDateRange(today, tomorrow),
                                          tasks[t].s, tasks[t].n)
     IN  IF found = {} THEN Goto(t, tasks, "send", <<"notFound">>)
         ELSE LET appointment == CHOOSE a \in found : TRUE IN
              IF ~ownedBy(appointment, tasks[t].s)
              THEN Goto(t, tasks, "send", <<"noPermission">>)
              ELSE IF appointment.status = "cancelled"
              THEN Goto(t, tasks, "send", <<"alreadyCancelled">>)
              ELSE IF appointment.status = "completed"
              THEN Goto(t, tasks, "send", <<"isCompleted">>)
              ELSE IF cancel(appointment) = Threw
              THEN Goto(t, tasks, "send", <<"adminError">>)
              ELSE Goto(t, [tasks EXCEPT ![t].apt = cancel(appointment)],
                        "saveSelId", <<>>)
  /\ UNCHANGED expired
  /\ StoreUnchanged /\ ClockUnchanged

\* CancelAppointmentByBarber.execute after the notification to the client
\* resolved or rejected; the rejection is logged, and #handleCancelAppointment
\* reports the cancellation to the barber
StepNotify(t) ==
  /\ tasks[t].pc = "notify"
  /\ \E delivered \in BOOLEAN :
       Goto(t, tasks, "send",
            <<IF delivered THEN "cancelledByBarber" ELSE "cancelledByBarberFailed",
              "cancelReport">>)
  /\ UNCHANGED expired
  /\ StoreUnchanged /\ ClockUnchanged

\* BlockTimeSlot.execute finding the barber and writing the block whatever
\* the hour and the table
StepBlockFindAccepting(t) ==
  /\ tasks[t].pc = "blockFind"
  /\ blocked' = blocked \cup {DateBlock(DayOf(tasks[t].dt), tasks[t].n)}
  /\ Goto(t, tasks, "send", <<"blockedNotice">>)
  /\ UNCHANGED <<appts, nextId, history, notes, clients, expired, sweep>>
  /\ ClockUnchanged

\* BlockTimeSlot.execute after barberRepository.findById resolved. main.js
\* hands the use case PostgreSQLAppointmentRepository as barberRepository,
\* and its findById is SELECT * FROM appointments WHERE id = $1: no
\* appointment has a barber's id, the result is null and execute returns
\* 'Barbero no encontrado' before it looks at the hour or the table
StepBlockFind(t) ==
  /\ tasks[t].pc = "blockFind"
  /\ Goto(t, tasks, "send", <<"blockError">>)
  /\ UNCHANGED expired
  /\ StoreUnchanged /\ ClockUnchanged

\* new ClientNote(...).toJSON() as PostgreSQLAppointmentRepository.save reads
\* it: the id is a fresh UUID, and the note has no customerName, serviceType,
\* dateTime or status
NoteAsRow(a, barberId) ==
  [id |-> NoteId, phone |-> a.phone, name |-> "null", barber |-> barberId,
   service |-> "null", dt |-> a.dt, status |-> "null"]

\* AddClientNote.execute after #findAppointmentByPrefix resolved, into
\* clientNoteRepository.save: main.js hands the use case
\* PostgreSQLAppointmentRepository as clientNoteRepository, so the note goes
\* through save, the upsert of the appointments table
StepNoteFind(t) ==
  /\ tasks[t].pc = "noteFind"
  /\ LET barberId == aobjs[tasks[t].aref].barber
         found == {a \in findByDateRange(now - 30 * DayMinutes, now) :
                     ownedBy(a, barberId) /\ a.id = tasks[t].n}
     IN  IF found = {} THEN Goto(t, tasks, "noteSent", <<"notFound">>)
         ELSE Goto(t, [tasks EXCEPT
                         ![t].apt = NoteAsRow(CHOOSE a \in found : TRUE, barberId)],
                   "saveSelId", <<>>)
  /\ UNCHANGED expired
  /\ StoreUnchanged /\ ClockUnchanged

\* AdminPanelHandler.handleTextMessage after #handleAddNote resolved: the
\* session goes back to the menu and the handler returns
FinishNote(t) ==
  /\ tasks[t].pc = "noteSent"
  /\ LET a == tasks[t].aref IN
     Commit(conv, objs, [admin EXCEPT ![Self(t)] = a],
            [aobjs EXCEPT ![a].state = "menu", ![a].noteAppointmentId = 0],
            [tasks EXCEPT ![t] = Idle])
  /\ UNCHANGED <<timers, welcomed, expired>>
  /\ StoreUnchanged /\ ClockUnchanged

\* ------------------------------------------------- clock, timers and sweep
Tick ==
  /\ \E t \in NowPoints : t > now /\ now' = t
  /\ UNCHANGED <<hostAhead, appts, nextId, history, blocked, notes, clients, conv, objs,
                 timers, welcomed, admin, aobjs, tasks, expired, sweep, events>>

\* WebhookHandler.#closeInactiveConversation, ten minutes after the last
\* inbound message of p; a handler takes less than that to return
TimerFire(p) ==
  /\ timers[p] = "pending"
  /\ ~InFlight(p)
  /\ IF conv[p] # NoObj THEN
       /\ Commit([conv EXCEPT ![p] = NoObj], objs, admin, aobjs, tasks)
       /\ timers' = [timers EXCEPT ![p] = "none"]
       /\ welcomed' = welcomed \ {p}
       /\ expired' = expired \cup {p}
     ELSE
       /\ timers' = [timers EXCEPT ![p] = "dead"]
       /\ UNCHANGED <<conv, objs, admin, aobjs, tasks, welcomed, expired>>
  /\ StoreUnchanged /\ ClockUnchanged

\* SELECT * FROM appointments WHERE date_time < (NOW() AT TIME ZONE
\*   'America/Bogota') AND status != 'cancelled'
selectExpired(A, at) == {a \in A : a.dt < at /\ a.status # "cancelled"}

\* DELETE FROM appointment_history WHERE phone_number = $1, and the INSERT of
\* the row with status 'completed'
moveToHistory(H, row) == [H EXCEPT ![row.phone] = [row EXCEPT !.status = "completed"]]

\* the DELETE left out: the row stays in appointments
keepExpired(A, row) == A

\* DELETE FROM appointments WHERE id = $1
deleteExpired(A, row) == {a \in A : a.id # row.id}

\* processExpiredAppointments: the loop over the selected rows
RECURSIVE processRows(_, _, _, _)
processRows(rows, A, H, processedCount) ==
  IF rows = {} THEN [appts |-> A, history |-> H, count |-> processedCount]
  ELSE LET row == CHOOSE r \in rows : TRUE
       IN  processRows(rows \ {row}, deleteExpired(A, row), moveToHistory(H, row),
                       processedCount + 1)

\* processExpiredAppointments run to its end at instant at, nothing else
\* touching the store meanwhile
processExpiredAppointments(A, H, at) == processRows(selectExpired(A, at), A, H, 0)

\* processExpiredAppointments: the SELECT of the expired rows
SweepSelect ==
  /\ ~sweep.running
  /\ LET rows == selectExpired(appts, now)
     IN  sweep' = [running |-> rows # {}, rows |-> rows]
  /\ UNCHANGED <<now, hostAhead, appts, nextId, history, blocked, notes, clients, conv,
                 objs, timers, welcomed, admin, aobjs, tasks, expired, events>>

\* processExpiredAppointments: one row moved to appointment_history
SweepRow ==
  /\ sweep.running /\ sweep.rows # {}
  /\ \E row \in sweep.rows :
       /\ history' = moveToHistory(history, row)
       /\ appts' = deleteExpired(appts, row)
       /\ sweep' = [sweep EXCEPT !.rows = @ \ {row}]
  /\ UNCHANGED <<now, hostAhead, nextId, blocked, notes, clients, conv, objs, timers,
                 welcomed, admin, aobjs, tasks, expired, events>>

\* processExpiredAppointments returns
SweepDone ==
  /\ sweep.running /\ sweep.rows = {}
  /\ sweep' = [running |-> FALSE, rows |-> {}]
  /\ UNCHANGED <<now, hostAhead, appts, nextId, history, blocked, notes, clients, conv,
                 objs, timers, welcomed, admin, aobjs, tasks, expired, events>>

Step(t) ==
  \/ StepAuth(t) \/ StepOtherCheck(t) \/ StepStartCheck(t) \/ StepStartShow(t)
  \/ StepBarberFind(t) \/ StepSlotsBooked(t) \/ StepSlotsBlocked(t)
  \/ StepTimeAvail(t) \/ StepSchedActive(t) \/ StepSchedExisting(t)
  \/ StepSchedAvail(t) \/ StepSaveSelId(t) \/ StepSaveUpd(t)
  \/ StepSaveSelPhone(t) \/ StepSaveDel(t) \/ StepSaveIns(t)
  \/ StepCancelFind(t) \/ StepCancelLoad(t) \/ StepCompleteFind(t)
  \/ StepBlockFind(t) \/ StepNoteFind(t)
  \/ FinishNote(t) \/ Finish(t)

Next ==
  \/ \E t \in Tasks, p \in Phones, e \in Texts : ArriveText(t, p, e)
  \/ \E t \in Tasks, p \in BarberPhones, e \in AdminTexts : ArriveText(t, p, e)
  \/ \E t \in Tasks, p \in Phones, e \in Selections : ArriveSelection(t, p, e)
  \/ \E t \in Tasks, p \in BarberPhones, e \in AdminSelections : ArriveSelection(t, p, e)
  \/ \E t \in Tasks : Step(t)
  \/ \E p \in Phones : TimerFire(p)
  \/ Tick
  \/ SweepSelect
  \/ SweepRow
  \/ SweepDone

Spec == Init /\ [][Next]_vars

\* the whole program from the two further situations; one appointment being
\* in the table, a single booking comes in, and ScheduleAppointment never
\* finds its target holding an active appointment
NextLater ==
  \/ \E t \in Tasks, p \in Phones, e \in Texts : ArriveText(t, p, e)
  \/ \E t \in Tasks, p \in BarberPhones, e \in AdminTexts : ArriveText(t, p, e)
  \/ \E t \in Tasks, p \in Phones, e \in Selections : ArriveSelection(t, p, e)
  \/ \E t \in Tasks, p \in BarberPhones, e \in AdminSelections : ArriveSelection(t, p, e)
  \/ \E t \in Tasks :
       \/ StepAuth(t) \/ StepOtherCheck(t) \/ StepStartCheck(t) \/ StepStartShow(t)
       \/ StepBarberFind(t) \/ StepSlotsBooked(t) \/ StepSlotsBlocked(t)
       \/ StepTimeAvail(t) \/ StepSchedActive(t) \/ StepSchedAvail(t)
       \/ StepSaveSelId(t) \/ StepSaveUpd(t) \/ StepSaveSelPhone(t)
       \/ StepSaveDel(t) \/ StepSaveIns(t) \/ StepCancelFind(t)
       \/ StepCancelLoad(t) \/ StepCompleteFind(t) \/ StepBlockFind(t)
       \/ StepNoteFind(t) \/ FinishNote(t) \/ Finish(t)
  \/ \E p \in Phones : TimerFire(p)
  \/ Tick
  \/ SweepSelect
  \/ SweepRow
  \/ SweepDone

SpecLater == InitLater /\ [][NextLater]_vars

\* the store or messaging call a customer's handler awaits rejects: nothing
\* on the selection and conversation paths catches it (handleMessage returns
\* their promises without await), so the handler ends there; the slot keeps
\* what the handler was doing
Reject(t) ==
  /\ tasks[t].pc # "idle"
  /\ tasks[t].k \notin AdminKinds \cup {"admin"}
  /\ tasks[t].pc \notin {"noteFind", "noteSent"}
  /\ Commit(conv, objs, admin, aobjs,
            [tasks EXCEPT ![t] = [Idle EXCEPT !.ph = tasks[t].ph, !.k = tasks[t].k,
                                              !.was = tasks[t].was,
                                              !.alone = tasks[t].alone,
                                              !.out = <<"rejected">>]])
  /\ UNCHANGED <<timers, welcomed, expired>>
  /\ StoreUnchanged /\ ClockUnchanged

\* the customers' messages alone, any awaited call of their handlers failing
NextFault ==
  \/ \E t \in Tasks, p \in Phones, e \in Texts : ArriveText(t, p, e)
  \/ \E t \in Tasks, p \in Phones, e \in Selections : ArriveSelection(t, p, e)
  \/ \E t \in Tasks :
       \/ StepOtherCheck(t) \/ StepStartCheck(t) \/ StepStartShow(t)
       \/ StepBarberFind(t) \/ StepSlotsBooked(t) \/ StepSlotsBlocked(t)
       \/ StepTimeAvail(t) \/ StepSchedActive(t) \/ StepSchedExisting(t)
       \/ StepSchedAvail(t) \/ StepSaveSelId(t) \/ StepSaveUpd(t)
       \/ StepSaveSelPhone(t) \/ StepSaveDel(t) \/ StepSaveIns(t)
       \/ StepCancelFind(t) \/ StepCancelLoad(t) \/ Finish(t)
  \/ \E t \in Tasks : Reject(t)

SpecFault == Init /\ [][NextFault]_vars

\* the admin panel alone: the barber's commands, notes and selections on
\* the appointment list, and the customer's cancellations.  No booking comes
\* in, so save never meets another row of the phone and its DELETE is not
\* reached.
NextAdmin ==
  \/ \E t \in Tasks, p \in BarberPhones, e \in AdminTexts : ArriveText(t, p, e)
  \/ \E t \in Tasks, p \in BarberPhones, s \in {"ana", "cancelar", "Cancelar", "CANCELAR"} :
       ArriveText(t, p, [k |-> "text", s |-> s, n |-> 0])
  \/ \E t \in Tasks, p \in BarberPhones, e \in StaffSelections : ArriveSelection(t, p, e)
  \/ \E t \in Tasks, p \in Phones \ BarberPhones, e \in CancelSelections :
       ArriveSelection(t, p, e)
  \/ \E t \in Tasks :
       \/ StepAuth(t) \/ StepSaveSelId(t) \/ StepSaveUpd(t) \/ StepSaveSelPhone(t)
       \/ StepSaveIns(t) \/ StepCancelFind(t) \/ StepCancelLoad(t)
       \/ StepCompleteFind(t) \/ StepBarberCancelFind(t) \/ StepNotify(t)
       \/ StepSaveDel(t) \/ StepNoteFind(t) \/ FinishNote(t) \/ Finish(t)
  \/ Tick
  \/ SweepSelect
  \/ SweepRow
  \/ SweepDone

SpecAdmin == InitAdmin /\ [][NextAdmin]_vars

\* a customer paging through the time list
NextPages ==
  \/ \E t \in Tasks :
       ArriveSelection(t, "p1", [k |-> "btn_mas_horarios", s |-> "none", n |-> 0])
  \/ \E t \in Tasks : Finish(t)

SpecPages == InitPages /\ [][NextPages]_vars

\* a customer asking for the hours of a date
NextSlots ==
  \/ \E t \in Tasks, e \in {x \in Selections : x.k = "date"} :
       ArriveSelection(t, "p1", e)
  \/ \E t \in Tasks : StepSlotsBooked(t) \/ StepSlotsBlocked(t) \/ Finish(t)
  \/ Tick

SpecSlots == InitSlots /\ [][NextSlots]_vars

\* the barber blocking and unblocking hours
NextBlock ==
  \/ \E t \in Tasks, p \in BarberPhones, e \in BlockSelections : ArriveSelection(t, p, e)
  \/ \E t \in Tasks : StepBlockFind(t) \/ Finish(t)

SpecBlock == InitBlock /\ [][NextBlock]_vars

\* the admin commands alone, with every alias
NextAuth ==
  \/ \E t \in Tasks, p \in BarberPhones, e \in AdminTexts \cup OtherAdminTexts :
       ArriveText(t, p, e)
  \/ \E t \in Tasks : StepAuth(t)
  \/ \E t \in Tasks : Finish(t)

SpecAuth == Init /\ [][NextAuth]_vars

\* ===================================================================== claims
\* an appointment that is neither cancelled nor past
Active(a) == a.status # "cancelled" /\ ~isPast(a)

\* the handlers in flight for the messages of p
Handling(p) == {t \in Tasks : tasks[t].pc # "idle" /\ tasks[t].ph = p}

\* C1: whatever the interleaving of two customers' commits on the same barber
\* and instant, one appointment at most stands for that barber and instant.
C1_OneAppointmentPerSlot ==
  \A a, b \in appts :
    (a.barber = b.barber /\ a.dt = b.dt
       /\ a.status # "cancelled" /\ b.status # "cancelled") => a = b

\* C2: in every reachable state of the store each phone number has at most one
\* appointment that is not cancelled.
C2_OneActivePerIdentity ==
  \A a, b \in appts :
    (a.phone = b.phone /\ a.status # "cancelled" /\ b.status # "cancelled") => a = b

\* a booking's INSERT was refused because its phone number already has a row
C2_InsertRefused ==
  \E t \in Tasks :
    /\ tasks[t].k = "time" /\ tasks[t].pc = "send"
    /\ tasks[t].out = <<"unhandled">>
    /\ tasks[t].apt # NoAppt
    /\ \E a \in appts : a.phone = tasks[t].apt.phone /\ a.id # tasks[t].apt.id

\* C3: the save of a new appointment for a phone number never deletes an
\* active appointment of that phone number.
C3_BookingKeepsActive ==
  [][\A t \in Tasks :
       (tasks[t].k = "time" /\ tasks[t].pc = "saveDel" /\ tasks'[t].pc = "saveIns")
         => \A a \in appts : Active(a) => a \in appts']_vars

\* the one-hour window of appointment a overlaps the hour starting at t
Overlaps(a, t) == a.dt < t + DURATION_MINUTES /\ t < a.dt + DURATION_MINUTES

\* blocked row k of a barber covers the slot at clock hour `hour` of `date`
Covers(k, date, hour) ==
  /\ k.recurring \/ k.date = date
  /\ k.startMin <= hour * MinutesPerHour
  /\ hour * MinutesPerHour < k.endMin

\* C4: getAvailableSlots(S, D) returns no slot overlapping the hour of a
\* non-cancelled appointment of S, and none a blocked interval of S covers, a
\* recurring one on every date and a one-off one on its own date.
C4_SlotsAreFree ==
  \A b \in Barbers, d \in Dates :
    \A slot \in Range(getAvailableSlots(b, NoonOf(d))) :
      /\ \A a \in appts :
           (a.barber = b /\ a.status # "cancelled") => ~Overlaps(a, slot.dateTime)
      /\ \A k \in blocked : k.barber = b => ~Covers(k, d, slot.time)

\* a date whose list leaves out one hour for an appointment and another for a
\* one-off block, and still offers some
C4_ListLeavesOut ==
  \E b \in Barbers, d \in Dates :
    LET offered == {slot.time : slot \in Range(getAvailableSlots(b, NoonOf(d)))}
        generated == generateTimeSlots(NoonOf(d))
    IN  /\ offered # {}
        /\ \E a \in appts, slot \in generated :
             a.barber = b /\ a.status # "cancelled" /\ a.dt = slot.dateTime
        /\ \E k \in blocked, slot \in generated :
             ~k.recurring /\ k.barber = b /\ Covers(k, d, slot.time)

\* C5: for every barber and slot-aligned instant, isSlotAvailable is true
\* exactly when the instant is among the slots getAvailableSlots returns for
\* its date.
C5_CheckAgreesWithList ==
  \A b \in Barbers, d \in Dates, h \in working_hours_start..(working_hours_end - 1) :
    LET T == ParseLocal(d, h * MinutesPerHour)
    IN  isSlotAvailable(b, T)
          <=> \E slot \in Range(getAvailableSlots(b, NoonOf(d))) : slot.dateTime = T

\* C6: no two messages of one phone number are being handled at once.
C6_OneAtATime == \A p \in Phones : Cardinality(Handling(p)) <= 1

\* C7: the first message after a session timed out, text or selection, is
\* answered with the greeting and leaves no booking session behind, no other
\* message of the sender being handled meanwhile.
C7_GreetingAfterExpiry ==
  \A t \in Tasks :
    (tasks[t].pc = "send" /\ tasks[t].first /\ tasks[t].alone)
      => tasks[t].out = <<"welcomeMenu">> /\ conv[tasks[t].ph] = NoObj

\* C8: every admin session owns a running inactivity timer.
C8_AdminSessionOwnsTimer ==
  \A p \in Phones : (admin[p] # NoObj /\ Handling(p) = {}) => timers[p] = "pending"

\* C9: when the handling of a menu command sent during a booking session
\* finishes, no other message of the sender being handled meanwhile, the
\* sender has no session and no timer, and the handling has created no
\* appointment.
C9_MenuAbandons ==
  \A t \in Tasks :
    (/\ tasks[t].k = "menu" /\ tasks[t].was # Free /\ tasks[t].alone
     /\ tasks[t].pc \in {"send", "noteSent"})
      => /\ conv[tasks[t].ph] = NoObj
         /\ timers[tasks[t].ph] = "none"
         /\ tasks[t].apt = NoAppt

\* the kind of selection each step of the flow asks for
KindOf(step) ==
  CASE step = "barber" -> "barber" [] step = "service" -> "srv"
    [] step = "date" -> "date" [] step = "time" -> "time" [] OTHER -> "none"

\* the prompt of each step
PromptOf(step) ==
  CASE step = "barber" -> "barberSelection" [] step = "service" -> "serviceSelection"
    [] step = "date" -> "dateSelection" [] step = "time" -> "timeSelection"
    [] OTHER -> "none"

\* the selection task t handles is no valid choice at the step its session
\* was: an id of another step, or an id the step does not know
InvalidChoice(t) ==
  /\ tasks[t].was # Free
  /\ KindOf(tasks[t].was.step) # "none"
  /\ tasks[t].k \in {"barber", "srv", "date", "time"}
  /\ \/ tasks[t].k # KindOf(tasks[t].was.step)
     \/ tasks[t].k = "barber" /\ tasks[t].s = UnknownBarber
     \/ tasks[t].k = "srv" /\ tasks[t].s = UnknownService

\* C10: a selection that is no valid choice for the step of the session, no
\* other message of the sender being handled meanwhile, leaves the step and
\* the booking fields as they were and is answered with the prompt of that
\* step.
C10_InvalidChoiceReprompts ==
  \A t \in Tasks :
    (tasks[t].pc = "send" /\ InvalidChoice(t) /\ tasks[t].alone)
      => /\ Session(tasks[t].ph) = tasks[t].was
         /\ tasks[t].out = <<PromptOf(tasks[t].was.step)>>

\* the time selection task t handles found its slot taken, at the check of
\* handleTimeSelection or at the check of ScheduleAppointment.execute
SlotWasTaken(t) ==
  /\ tasks[t].k = "time" /\ tasks[t].pc = "send"
  /\ tasks[t].out # <<>>
  /\ tasks[t].out[1] \in {"slotTaken", "slotUnavailable"}

\* C11: a time selection whose slot was booked in the meantime creates no
\* appointment, leaves the session at the time step with its fields as they
\* were, and is answered with the already-taken notice followed by the slot
\* list, no other message of the sender being handled meanwhile.
C11_TakenSlotReprompts ==
  \A t \in Tasks :
    (SlotWasTaken(t) /\ tasks[t].alone)
      => /\ \A a \in appts : tasks[t].apt # NoAppt => a.id # tasks[t].apt.id
         /\ Session(tasks[t].ph) = tasks[t].was
         /\ tasks[t].out = <<"slotTaken", "timeSelection">>

\* the booking of task t, past its three checks, ends within this step
BookingEnds(t) ==
  /\ tasks[t].k = "time"
  /\ tasks[t].pc \in {"saveSelPhone", "saveDel", "saveIns"}
  /\ tasks'[t].pc = "send"

\* C13: a time selection that passed the active-appointment, future-instant
\* and slot-free checks ends with exactly one appointment created for the
\* target with the session's name, staff, service and the selected instant,
\* with session and timer removed, and with a confirmation handed over, no
\* other message of the sender being handled meanwhile.
C13_BookingCommits ==
  [][\A t \in Tasks :
       (BookingEnds(t) /\ tasks[t].alone)
         => /\ tasks[t].apt = [Request(tasks[t].was, tasks[t].ph, tasks[t].dt)
                                 EXCEPT !.id = tasks[t].apt.id]
            /\ appts' \ appts = {tasks[t].apt}
            /\ conv'[tasks[t].ph] = NoObj
            /\ timers'[tasks[t].ph] = "none"
            /\ tasks'[t].out # <<>> /\ tasks'[t].out[1] = "confirmation"]_vars

\* what normal routing makes of a text that is no command, in a session at
\* the given step: the session left and the answer
RoutedAsText(st, text) ==
  IF st.step = "name"
  THEN [session |-> [st EXCEPT !.customerName = capitalizeName(text),
                               !.step = "barber"],
        timer |-> "pending", out |-> <<"barberSelection">>]
  ELSE IF st.step = "other_phone"
  THEN [session |-> st, timer |-> "pending", out |-> <<"invalidPhone">>]
  ELSE [session |-> Free, timer |-> "none", out |-> <<"welcomeMenu">>]

\* C19: a text that begins with "admin " and is no well-formed admin command
\* is handled as normal routing handles a text: a booking session of the
\* sender keeps its timer and takes the text as its input, no other message
\* of the sender being handled meanwhile.
C19_MalformedAdminFallsThrough ==
  \A t \in Tasks :
    (/\ tasks[t].k = "admin"
     /\ parse(tasks[t].k, tasks[t].s, tasks[t].n) = NullCommand
     /\ tasks[t].pc = "send" /\ tasks[t].was # Free /\ tasks[t].alone)
      => LET r == RoutedAsText(tasks[t].was, tasks[t].s)
         IN  /\ Session(tasks[t].ph) = r.session
             /\ timers[tasks[t].ph] = r.timer
             /\ tasks[t].out = r.out

\* the first of two runs of the sweep in succession, on the store as it is
FirstRun == processExpiredAppointments(appts, history, now)

AuthFailed(t) ==
  /\ tasks[t].k = "admin" /\ tasks[t].pc = "send"
  /\ parse(tasks[t].k, tasks[t].s, tasks[t].n) # NullCommand
  /\ ~AuthenticateBarber(tasks[t].s, tasks[t].n).success

\* C14: every refused admin command is answered with the one generic failure,
\* whatever the alias and the PIN, so the answer tells nothing about which
\* aliases exist.
C14_GenericAuthFailure ==
  \A t \in Tasks : AuthFailed(t) => tasks[t].out = <<"credencialesInvalidas">>

\* task t carries an admin action: a completion, a staff cancellation, or the
\* text of a note
AdminAct(t) ==
  \/ tasks[t].k \in {"adm_complete", "adm_cancel"} /\ tasks[t].pc # "idle"
  \/ tasks[t].pc = "noteFind"
  \/ tasks[t].apt # NoAppt /\ tasks[t].apt.id = NoteId

\* the staff member in whose admin session task t acts
StaffOf(t) ==
  IF tasks[t].k \in {"adm_complete", "adm_cancel"} THEN tasks[t].s
  ELSE aobjs[tasks[t].aref].barber

\* task t takes a step
Moves(t) == tasks'[t].pc # tasks[t].pc

\* the answers that report an error to the staff member
AdminErrors == {"notFound", "noPermission", "adminError"}

\* C16: no step of an admin action in the session of a staff member changes
\* the status of, or attaches a note to, an appointment of another staff
\* member; an action aimed at such an appointment ends with an error and
\* leaves the appointment as it is.
C16_NoCrossStaffAction ==
  [][\A t \in Tasks :
       (AdminAct(t) /\ Moves(t))
         => \A a \in appts :
              a.barber # StaffOf(t)
                => /\ \A b \in appts' : b.id = a.id => b.status = a.status
                   /\ \A nt \in notes' \ notes : nt.appointmentId # a.id
                   /\ tasks[t].n = a.id
                        => /\ a \in appts'
                           /\ tasks'[t].pc \in {"send", "noteSent"}
                                => /\ tasks'[t].out # <<>>
                                   /\ tasks'[t].out[Len(tasks'[t].out)]
                                        \in AdminErrors]_vars

\* a staff member's completion or cancellation of another staff member's
\* appointment was answered with an error, the appointment still there
C16_CrossStaffRefused ==
  \E t \in Tasks, a \in appts :
    /\ tasks[t].k \in {"adm_complete", "adm_cancel"} /\ tasks[t].pc = "send"
    /\ tasks[t].n = a.id /\ a.barber # tasks[t].s
    /\ tasks[t].out = <<"notFound">>

\* the statuses an appointment does not leave
Terminal == {"cancelled", "completed"}

\* C17: an appointment whose status is cancelled or completed keeps that
\* status: no step of a customer's cancellation, a staff cancellation or a
\* completion changes it in the store, and confirm(), cancel() and complete()
\* do not move it either.
C17_TerminalStatusStays ==
  [][\A a \in appts :
       a.status \in Terminal
         => /\ \A b \in appts' : b.id = a.id => b.status = a.status
            /\ \A r \in {confirm(a), cancel(a), complete(a)} :
                 r # Threw => r.status = a.status]_vars

\* C18: when the notification to the customer fails during a staff
\* cancellation, the store is left as the cancellation's save left it and the
\* staff member is told the cancellation succeeded.
C18_NotifyFailureKeepsCancel ==
  [][\A t \in Tasks :
       (/\ tasks[t].pc = "notify" /\ tasks'[t].pc = "send"
        /\ tasks'[t].out[1] = "cancelledByBarberFailed")
         => /\ appts' = appts
            /\ tasks[t].apt.status = "cancelled"
            /\ tasks'[t].out = <<"cancelledByBarberFailed", "cancelReport">>]_vars

\* the notification failed, the appointment is cancelled in the store and the
\* staff member got the report
C18_CancelledUnnotified ==
  \E t \in Tasks :
    /\ tasks[t].k = "adm_cancel" /\ tasks[t].pc = "send"
    /\ tasks[t].out = <<"cancelledByBarberFailed", "cancelReport">>
    /\ tasks[t].apt \in appts /\ tasks[t].apt.status = "cancelled"

\* an admin session appears for p
SessionOpens(p) == admin[p] = NoObj /\ admin'[p] # NoObj

\* task t takes up an admin selection of p, who has no admin session
SelectsWithoutSession(t, p) ==
  /\ tasks[t].pc = "idle" /\ tasks'[t].pc # "idle"
  /\ tasks'[t].ph = p /\ tasks'[t].k \in AdminKinds
  /\ admin[p] = NoObj

\* C15: an admin session appears only when a PIN authentication succeeds, and
\* it starts in the menu; an admin selection of an identity without admin
\* session, after a logout too, starts no admin action and changes no
\* appointment, blocked interval or note.
C15_SessionOnlyByLogin ==
  [][\A p \in Phones :
       /\ SessionOpens(p)
            => /\ \E t \in Tasks :
                    /\ tasks[t].pc = "auth" /\ tasks[t].ph = p
                    /\ tasks'[t].pc = "send"
                    /\ AuthenticateBarber(tasks[t].s, tasks[t].n).success
               /\ aobjs'[admin'[p]].state = "menu"
       /\ \A t \in Tasks :
            SelectsWithoutSession(t, p)
              => /\ admin'[p] = NoObj
                 /\ tasks'[t].pc = "send"
                 /\ appts' = appts /\ blocked' = blocked /\ notes' = notes]_vars

\* the session of p after the step
SessionAfter(p) == IF conv'[p] = NoObj THEN Free ELSE objs'[conv'[p]]

\* the handler of a step input of the booking flow ends on a failed call
FlowEventFails(t) ==
  /\ tasks[t].pc # "idle" /\ tasks'[t].pc = "idle"
  /\ tasks'[t].out = <<"rejected">>
  /\ tasks[t].was # Free
  /\ tasks[t].k \in {"text", "phone", "barber", "srv", "date", "time"}

\* C12: when a store or messaging call fails while an input of the booking
\* flow is handled, the session is afterwards at the step and with the fields
\* it had before the input, no other message of the sender being handled
\* meanwhile.
C12_FailureKeepsStep ==
  [][\A t \in Tasks :
       (FlowEventFails(t) /\ tasks[t].alone)
         => SessionAfter(tasks[t].ph) = tasks[t].was]_vars

\* the step in which processExpiredAppointments moves the last row it
\* selected and returns, its SELECT having run at the present clock point
\* (some row it still holds was not yet due at any earlier point)
SweepReturns ==
  /\ sweep.running /\ sweep.rows # {} /\ sweep'.rows = {}
  /\ \A at \in NowPoints : at < now => \E r \in sweep.rows : r.dt >= at

\* C21: after processExpiredAppointments completes, no non-cancelled
\* appointment scheduled before the sweep's current time remains in the
\* appointments table, every appointment it removed is the history record of
\* its customer, and run alone it returns the number of appointments it moved.
C21_SweepLeavesNoneDue ==
  [][/\ SweepReturns
        => \A a \in appts' : a.status # "cancelled" => a.dt >= now
     /\ (sweep.running /\ sweep'.rows # sweep.rows)
        => \A a \in appts \ appts' : history'[a.phone].id = a.id
     /\ FirstRun.count = Cardinality(appts \ FirstRun.appts)]_vars

\* task t starts handling the unblock button in this step
Unblocks(t) ==
  tasks[t].pc = "idle" /\ tasks'[t].pc # "idle" /\ tasks'[t].k = "adm_unblock"

\* the date-specific blocked intervals of staff member b on date d from hour h
BlocksOf(B, b, d, h) ==
  {k \in B : ~k.recurring /\ k.barber = b /\ k.date = d
                /\ k.startMin = h * MinutesPerHour}

\* C22: when a blocked interval of staff member S for date D and hour H has
\* been created and UnblockTimeSlot(S, D, H) is executed next (from the
\* panel, D being today), the unblock succeeds and no blocked interval for
\* (S, D, H) remains, so that getAvailableSlots(S, D) offers H as it did
\* before the block.
C22_UnblockUndoesBlock ==
  [][\A t \in Tasks :
       (/\ Unblocks(t)
        /\ BlocksOf(blocked, aobjs[admin[tasks'[t].ph]].barber, DayOf(now),
                    tasks'[t].n) # {})
         => /\ tasks'[t].out = <<"unblockedNotice">>
            /\ BlocksOf(blocked', aobjs[admin[tasks'[t].ph]].barber, DayOf(now),
                        tasks'[t].n) = {}]_vars

\* the hour of the block task t asks for lies outside the working hours
OutsideHours(t) ==
  tasks[t].n < working_hours_start \/ tasks[t].n >= working_hours_end

\* a blocked interval with the start time task t asks for applies to its
\* staff member on its date, date-specific or recurring
AlreadyBlocked(t) ==
  \E k \in blocked :
    /\ k.barber = tasks[t].s /\ k.startMin = tasks[t].n * MinutesPerHour
    /\ (k.recurring \/ k.date = DayOf(tasks[t].dt))

C24_NoPastHourToday ==
  /\ [](\A b \in Barbers, d \in Dates :
          d = DayOf(now)
            => \A slot \in Range(getAvailableSlots(b, NoonOf(d))) :
                 slot.time > HourOf(now))
  /\ [][\A t \in Tasks :
          (/\ tasks[t].pc = "idle" /\ tasks'[t].pc = "slotsBooked"
           /\ tasks'[t].k = "date" /\ tasks'[t].n = DayOf(now))
            => \A slot \in tasks'[t].gen : slot.time > HourOf(now)]_vars

\* a customer picked today and was shown a list that starts after the
\* current hour, an earlier working hour being left out
C24_TodayListShown ==
  \E t \in Tasks :
    /\ tasks[t].k = "date" /\ tasks[t].pc = "send" /\ tasks[t].n = DayOf(now)
    /\ HourOf(now) >= working_hours_start
    /\ LET shown == objs[tasks[t].ref].availableSlots
       IN  /\ shown # <<>>
           /\ shown = getAvailableSlots(tasks[t].s, NoonOf(tasks[t].n))
           /\ \A i \in DOMAIN shown : shown[i].time > HourOf(now)

\* the slot of staff member b at hour h of date d is excluded: by the rule
\* for today, by a non-cancelled appointment of b, or by a blocked interval
\* of b
Withheld(b, d, h) ==
  \/ d = DayOf(now) /\ h <= HourOf(now)
  \/ \E a \in appts : /\ a.barber = b /\ a.status # "cancelled"
                       /\ a.dt = ParseLocal(d, h * MinutesPerHour)
  \/ \E k \in blocked : k.barber = b /\ Covers(k, d, h)

\* C25: for every staff member and date, getAvailableSlots returns, in
\* ascending time order, every hourly slot start from the opening hour to the
\* closing hour (exclusive) that is not excluded by the rule for today, by a
\* non-cancelled appointment of the staff member or by one of their blocked
\* intervals, and withholds no other slot.
C25_EveryFreeHourOffered ==
  \A b \in Barbers, d \in Dates :
    LET slots == getAvailableSlots(b, NoonOf(d))
    IN  /\ {slots[i].time : i \in DOMAIN slots}
             = {h \in working_hours_start..(working_hours_end - 1) : ~Withheld(b, d, h)}
        /\ \A i, j \in DOMAIN slots : i < j => slots[i].time < slots[j].time
        /\ \A i \in DOMAIN slots :
             slots[i].dateTime = ParseLocal(d, slots[i].time * MinutesPerHour)

\* with a single booking on a future date and no block, a customer who
\* picked that date was shown every hour except the booked one
C25_AllButTheBookedHour ==
  \E t \in Tasks, a \in appts :
    /\ tasks[t].k = "date" /\ tasks[t].pc = "send" /\ tasks[t].n > DayOf(now)
    /\ blocked = {} /\ appts = {a}
    /\ a.barber = tasks[t].s /\ a.status # "cancelled"
    /\ LET shown == objs[tasks[t].ref].availableSlots
       IN  {shown[i].time : i \in DOMAIN shown}
             = (working_hours_start..(working_hours_end - 1))
                 \ {HourOf(HostClock(a.dt))}

\* C26: a text that reaches a session waiting for a note text and is the
\* cancel keyword in any letter case stores no note and puts the session back
\* on the menu; any other text is stored as the note of the selected
\* appointment, and the session is back on the menu when the handler returns.
NoteTextArrives(t) ==
  /\ tasks[t].pc = "idle" /\ tasks'[t].pc # "idle" /\ tasks'[t].k = "text"
  /\ admin[tasks'[t].ph] # NoObj
  /\ aobjs[admin[tasks'[t].ph]].state = "waiting_note"

C26_NoteTextStoredOrCancelled ==
  [][\A t \in Tasks :
       /\ (NoteTextArrives(t) /\ tasks'[t].s \in {"cancelar", "Cancelar", "CANCELAR"})
            => /\ notes' = notes
               /\ aobjs'[admin'[tasks'[t].ph]].state = "menu"
               /\ tasks'[t].pc = "send"
       /\ (tasks[t].pc = "noteSent" /\ tasks'[t].pc = "idle")
            => /\ \E nt \in notes' : nt.appointmentId = tasks[t].n
               /\ aobjs'[tasks[t].aref].state = "menu"]_vars

\* C27: when the handler of a booking that committed returns, the clients
\* table holds a record of the booked identity with the booked name and a
\* count of at least one; a step changes the count of a record by one at
\* most, and no step removes a record.
C27_BookingUpsertsClient ==
  [][/\ \A t \in Tasks :
          (/\ tasks[t].pc = "send" /\ tasks'[t].pc = "idle"
           /\ tasks[t].k = "time"
           /\ tasks[t].out # <<>> /\ tasks[t].out[1] = "confirmation")
            => \E c \in clients' : /\ c.phone = tasks[t].apt.phone
                                    /\ c.name = tasks[t].apt.name
                                    /\ c.totalAppointments >= 1
     /\ \A c \in clients :
          \E d \in clients' : /\ d.phone = c.phone
                               /\ d.totalAppointments \in {c.totalAppointments,
                                                           c.totalAppointments + 1}]_vars

\* C28: whenever an identity has a booking session and none of its events is
\* being handled, its inactivity timer is pending (a pending timer is the one
\* armed by the last reset), whatever the interleaving of handlers, events
\* and timer firings before.
C28_OpenSessionHasTimer ==
  \A p \in Phones : (conv[p] # NoObj /\ ~InFlight(p)) => timers[p] = "pending"

\* C29: no timer is pending for an identity without a session, and a step that
\* takes the session of an identity away - removes it or puts another one in
\* its place - leaves no timer pending unless it puts a session it has just
\* created in its place, for which it arms the timer anew: no timer outlives
\* its session to fire against another session of the identity.
C29_TimerDiesWithSession ==
  /\ [](\A p \in Phones : conv[p] = NoObj => timers[p] # "pending")
  /\ [][\A p \in Phones :
          (conv[p] # NoObj /\ conv'[p] # conv[p])
            => \/ timers'[p] # "pending"
               \/ conv'[p] # NoObj /\ objs[conv'[p]].step = "free"]_vars

\* C30: the appointment a booking inserts for a barber never starts at an
\* instant that a blocked interval of that barber, in the table at the insert,
\* covers - whether or not the hour was among the slots offered.
C30_NoBookingInBlockedInterval ==
  [][\A t \in Tasks :
       (/\ tasks[t].pc = "saveIns" /\ tasks[t].k = "time"
        /\ tasks[t].apt \in appts' \ appts)
         => \A k \in blocked' :
              k.barber = tasks[t].apt.barber => ~conflictsWith(k, tasks[t].apt.dt)]_vars

\* C31: a session at a step has the fields of every step before it set, under
\* any interleaving; a time selection is taken up for booking only from a
\* session at step time with name, barber, service and date set, and the
\* appointment it inserts carries them; and the events of an identity, handled
\* one after the other, move its session from a step to the next one only
\* (from time back to date through choose-another-date).
FieldsBefore(st) ==
  /\ st.step \in {"barber", "service", "date", "time"} => st.customerName # "none"
  /\ st.step \in {"service", "date", "time"} => st.barberId # "none"
  /\ st.step \in {"date", "time"} => st.serviceType # "none"
  /\ st.step = "time" => st.date # NoDate

StepOrder ==
  {<<"other_phone", "name">>, <<"name", "barber">>, <<"barber", "service">>,
   <<"service", "date">>, <<"date", "time">>, <<"time", "date">>}

C31_StepsInOrder ==
  /\ [](\A o \in ObjIds : FieldsBefore(objs[o]))
  /\ [][/\ \A t \in Tasks :
            /\ (tasks[t].pc = "idle" /\ tasks'[t].pc = "timeAvail")
                 => LET st == objs[conv[tasks'[t].ph]]
                    IN  st.step = "time" /\ FieldsBefore(st)
            /\ (/\ tasks[t].pc = "saveIns" /\ tasks[t].k = "time"
                 /\ tasks[t].apt \in appts' \ appts)
                 => /\ tasks[t].apt.name # "none"
                    /\ tasks[t].apt.barber # "none"
                    /\ tasks[t].apt.service # "none"
                    /\ tasks[t].apt.dt # 0
        /\ \A p \in Phones :
            (/\ conv[p] # NoObj /\ conv'[p] = conv[p]
             /\ objs'[conv[p]].step # objs[conv[p]].step
             /\ \A t \in Tasks : tasks[t].ph = p /\ tasks[t].pc # "idle"
                                     => tasks[t].alone
             /\ \A t \in Tasks : tasks'[t].ph = p /\ tasks'[t].pc # "idle"
                                     => tasks'[t].alone)
              => <<objs[conv[p]].step, objs'[conv[p]].step>> \in StepOrder]_vars

\* a time selection has been booked and confirmed
C31_BookedFromTimeStep ==
  \E t \in Tasks :
    /\ tasks[t].k = "time" /\ tasks[t].pc = "send"
    /\ tasks[t].out # <<>> /\ tasks[t].out[1] = "confirmation"
    /\ tasks[t].apt \in appts /\ tasks[t].alone

NearInstants ==
  {a.dt + d : a \in appts,
              d \in {0 - DURATION_MINUTES, 1 - DURATION_MINUTES, 0 - 1, 0, 1,
                     DURATION_MINUTES - 1, DURATION_MINUTES}}

C33_HalfOpenOverlap ==
  \A b \in BarberIds, T \in NearInstants :
    isSlotAvailable(b, T)
      <=> ~\E a \in appts :
             /\ a.barber = b /\ a.status # "cancelled"
             /\ a.dt < T + DURATION_MINUTES /\ T < a.dt + DURATION_MINUTES

\* a booked hour whose neighbours on both sides are free and whose last
\* minute is not
C33_AdjacentHoursFree ==
  \E a \in appts :
    /\ a.status # "cancelled"
    /\ isSlotAvailable(a.barber, a.dt + DURATION_MINUTES)
    /\ isSlotAvailable(a.barber, a.dt - DURATION_MINUTES)
    /\ ~isSlotAvailable(a.barber, a.dt + DURATION_MINUTES - 1)
    /\ ~isSlotAvailable(a.barber, a.dt + 1 - DURATION_MINUTES)
    /\ \E t \in Tasks : tasks[t].pc = "schedAvail" /\ tasks[t].apt.barber = a.barber

\* C34: every page of the time list sent for a "more" selection at the time
\* step has between one and ten rows, they are the slots at positions 10k to
\* 10k+9 of the session's list, k the session's page, and the "more" button
\* follows it only when the list has later slots.
C34_PagesWithinList ==
  [][\A t \in Tasks :
       (/\ tasks[t].pc = "idle" /\ tasks'[t].pc = "send"
        /\ tasks'[t].k = "btn_mas_horarios"
        /\ tasks'[t].out # <<>> /\ tasks'[t].out[1] = "timeSelection")
         => LET o == conv[tasks'[t].ph]
                list == objs[o].availableSlots
                k == objs'[o].timePage
                rows == tasks'[t].page
            IN  /\ Len(rows) >= 1 /\ Len(rows) <= PAGE_SIZE
                /\ {rows[i] : i \in DOMAIN rows}
                     = {list[i] : i \in {j \in DOMAIN list :
                                           /\ j > PAGE_SIZE * k
                                           /\ j <= PAGE_SIZE * k + PAGE_SIZE}}
                /\ \A i, j \in DOMAIN rows : i < j => rows[i].time < rows[j].time
                /\ tasks'[t].out # <<"timeSelection">>
                     => Len(list) > PAGE_SIZE * k + PAGE_SIZE]_vars


\* a customer's cancel selection for the appointment that counts as the
\* sender's active one is decided in this step
SelfCancelDecided(t) ==
  /\ tasks[t].pc = "cancelLoad"
  /\ tasks'[t].pc # "cancelLoad"
  /\ hasActiveAppointment(Self(t))
  /\ findByPhone(Self(t)).id = tasks[t].n

\* C35: whenever a customer holds an active appointment, the customer's own
\* cancel of it succeeds: the appointment is taken to status cancelled and
\* handed to the store, whatever its status was, so that no status leaves
\* the customer unable to book and unable to cancel.
C35_ActiveSelfCancelSucceeds ==
  [][\A t \in Tasks :
       SelfCancelDecided(t)
         => /\ tasks'[t].pc = "saveSelId"
            /\ tasks'[t].apt.status = "cancelled"]_vars


\* C36: a non-cancelled appointment whose instant has passed leaves the
\* active store only by being recorded in history: no step, in particular
\* no booking by the same customer before the next sweep, removes its row
\* without archiving it.
C36_ExpiredLeavesOnlyToHistory ==
  [][\A a \in appts :
       (a.status # "cancelled" /\ a.dt < now /\ \A b \in appts' : b.id # a.id)
         => /\ history'[a.phone] # NoAppt
            /\ history'[a.phone].id = a.id]_vars


\* an admin selection other than a note selection arrives for an identity
\* whose admin session stays open
OtherAdminSelectionArrives(t) ==
  /\ tasks[t].pc = "idle" /\ tasks'[t].pc # "idle"
  /\ tasks'[t].k \in AdminKinds \ {"adm_note"}
  /\ admin[tasks'[t].ph] # NoObj
  /\ admin'[tasks'[t].ph] # NoObj

\* C37: an admin session awaits a note text only from a note selection to
\* the next admin event of the identity: any other admin selection, such as
\* the return to the main menu, leaves the session in state menu.
C37_OtherSelectionLeavesMenu ==
  [][\A t \in Tasks :
       OtherAdminSelectionArrives(t)
         => aobjs'[admin'[tasks'[t].ph]].state = "menu"]_vars


\* a text that is neither a menu command nor an admin command arrives while
\* the sender's booking session is at step barber, service, date or time
FreeTextArrives(t) ==
  /\ tasks[t].pc = "idle" /\ tasks'[t].pc # "idle"
  /\ tasks'[t].k \in {"text", "phone", "agendar"}
  /\ conv[tasks'[t].ph] # NoObj
  /\ objs[conv[tasks'[t].ph]].step \in {"barber", "service", "date", "time"}

\* C38: a free text sent while the booking session is at step barber,
\* service, date or time destroys the session and its timer, is answered
\* with the welcome menu and creates no appointment.
C38_FreeTextAbandons ==
  [][\A t \in Tasks :
       FreeTextArrives(t)
         => /\ conv'[tasks'[t].ph] = NoObj
            /\ timers'[tasks'[t].ph] = "none"
            /\ tasks'[t].pc = "send"
            /\ tasks'[t].out = <<"welcomeMenu">>
            /\ appts' = appts]_vars


\* the list getAvailableSlots hands to the handler whose store reads have
\* resolved
RefreshedSlots(t) ==
  SlotSeq(filterSlots(tasks[t].gen, tasks[t].booked,
                      findBlockedSlotsByBarberAndDate(tasks[t].s, tasks[t].dt)))

\* C39: whenever a handler shows the time list of a session, on the date
\* selection and on the already-taken re-prompt alike, the session then
\* stores the list just shown and the page cursor 0.
C39_StoredListIsShownList ==
  [][\A t \in Tasks :
       (/\ tasks[t].pc = "slotsBlocked" /\ tasks'[t].pc = "send"
        /\ conv'[Self(t)] = tasks[t].ref)
         => /\ objs'[tasks[t].ref].availableSlots = RefreshedSlots(t)
            /\ objs'[tasks[t].ref].timePage = 0]_vars


\* the handler of slot t ends the sender's session in this step
EndsSession(t) == tasks[t].ends = <<>> /\ tasks'[t].ends # <<>>

\* C40: on every transition by which a handler ends a booking session (the
\* commit, the menu text, the menu button, a rejection that ends the flow)
\* the inactivity timer is cancelled before the session entry is deleted.
C40_TimerCancelledFirst ==
  [][\A t \in Tasks :
       EndsSession(t)
         => tasks'[t].ends = <<"clearInactivityTimer", "conversationState.delete">>]_vars

====
